---- MODULE Spec2Model ----
(***************************************************************************)
(* A model of the mynginx control plane: the sqlite site store, the nginx  *)
(* driver's sites / staging / backup directories and the apply pipeline    *)
(* (App.Apply, App.applyOne) run by concurrent handlers of one App.        *)
(***************************************************************************)
EXTENDS Integers, Sequences, FiniteSets, TLC

\* ---------------------------------------------------------------- bounds
\* The clock takes the values 1..MaxClock (millisecond stamps of strftime %f).
MaxClock == 2
\* Render-affecting site settings (webroot, http3, ...) take the values 1..MaxRev.
MaxRev == 1
\* ApplyRequest.Limit is drawn from 0..MaxLimit.
MaxLimit == 1
\* A run holds at most MaxEdits calls of store-editing handlers and MaxCalls calls of Apply.
MaxEdits == 2
MaxCalls == 2
\* Failures of the environment (a write under the staging or live directory, nginx -t,
\* nginx reload) in one run.
MaxFaults == 1

\* The domains of the model, and the order of ListSites (ORDER BY domain ASC).
DomainOrder == <<"a.test", "b.test">>
Domains == {DomainOrder[k] : k \in 1..Len(DomainOrder)}
\* The goroutines (HTTP handlers, CLI) that call App.Apply.
Threads == {"h1", "h2"}
Modes == {"static", "proxy"}
Targets == {"up1"}

\* ------------------------------------------------------- values and files
\* SQL NULL in a nullable timestamp column (last_applied_at, deleted_at).
NullTime == 0
\* A path that does not exist; a file that exists holds the rendered bytes.
Absent == <<>>
\* renderHash := "" (no content was rendered).
NoHash == <<>>
\* sync.Mutex unlocked.
Unlocked == "unlocked"

\* Sha256Hex as a digest: a value of its own kind, equal only for equal bytes.
Sha256Hex(b) == <<"sha256", b>>

VARIABLES
  now,           \* the wall clock read by strftime('now')
  sites,         \* table sites: domain -> row (the domain is UNIQUE)
  nextId,        \* AUTOINCREMENT of sites.id
  proxyTargets,  \* table proxy_targets: set of rows
  applyRuns,     \* table apply_runs: set of rows
  stage,         \* <stage>/sites/<domain>.conf
  live,          \* <sites>/<domain>.conf
  bak,           \* <backup>/<domain>.conf.bak
  cfg,           \* the loaded configuration (nginx.apply.test_before_reload)
  applyMu,       \* App.applyMu: Unlocked or the goroutine holding it
  fr,            \* per goroutine: the frame of its Apply call
  quiet,         \* history: the kind of the last completed Apply, "none" after any store edit
  edits,         \* history: the number of store-editing handler calls of this run
  calls,         \* history: the number of Apply calls of this run
  faults,        \* environment: the number of failed writes and nginx commands of this run
  disk,          \* the files the helper packages work on (certs, util, fpm); NoDisk in the
                 \* specifications of the apply pipeline
  call           \* the call of a helper package under way or just finished; NoCall if none

vars == <<now, sites, nextId, proxyTargets, applyRuns, stage, live, bak, cfg, applyMu, fr, quiet, edits, calls, faults, disk, call>>

\* The helper packages' variables, which the store and the apply pipeline never touch.
ioVars == <<disk, call>>
NoDisk == [kind |-> "none"]
NoCall == [op |-> "", pc |-> "idle"]


\* ------------------------------------------------------------------ store
\* INSERT INTO sites ... : the column defaults of the schema.
NewSiteRow(id, domain, mode, rev, enabled, t) ==
  [ id |-> id, domain |-> domain, mode |-> mode, rev |-> rev, enabled |-> enabled,
    deleted_at |-> NullTime, created_at |-> t, updated_at |-> t,
    last_render_hash |-> NoHash, last_applied_at |-> NullTime,
    last_apply_status |-> "", last_apply_error |-> "" ]

\* An upsert that replaces the row of an existing domain by a fresh one (INSERT OR REPLACE).
UpsertSite_Replace(tbl, id, domain, mode, rev, enabled, t) ==
  [x \in (DOMAIN tbl) \cup {domain} |->
     IF x = domain THEN NewSiteRow(id, domain, mode, rev, enabled, t) ELSE tbl[x]]

\* Store.UpsertSite: INSERT ... ON CONFLICT(domain) DO UPDATE SET mode, webroot, ...,
\* enabled, updated_at = now.  (deleted_at and the last-apply fields are not in the SET list.)
UpsertSite(tbl, id, domain, mode, rev, enabled, t) ==
  IF domain \in DOMAIN tbl
  THEN [tbl EXCEPT ![domain] = [@ EXCEPT !.mode = mode, !.rev = rev,
                                         !.enabled = enabled, !.updated_at = t]]
  ELSE [x \in (DOMAIN tbl) \cup {domain} |->
          IF x = domain THEN NewSiteRow(id, domain, mode, rev, enabled, t) ELSE tbl[x]]

\* The number of fields of a store.Site argument that UpsertSite refuses.
Defects(site) ==
  (IF site.domain = "" THEN 1 ELSE 0) + (IF site.user_id = 0 THEN 1 ELSE 0)
  + (IF site.webroot = "" THEN 1 ELSE 0) + (IF site.mode = "cgi" THEN 1 ELSE 0)

\* The arguments of Store.UpsertSite: a store.Site with its user id, domain, mode and
\* webroot, valid or with one field that is not; rev stands for the remaining columns
\* (php_version, enable_http3).
SiteArgs ==
  {site \in [user_id : 0..1, domain : Domains \cup {""}, mode : {"", "php", "proxy", "cgi"},
             webroot : {"", "/srv/www"}, rev : 1..MaxRev, enabled : BOOLEAN] :
     Defects(site) <= 1}

\* Store.UpsertSite as the Go function: the checks on the argument, the default mode, then
\* the INSERT ... ON CONFLICT statement.
StoreUpsertSite(tbl, id, site, t) ==
  LET mode == IF site.mode = "" THEN "php" ELSE site.mode IN
  IF site.domain = "" THEN [err |-> "domain is required", tbl |-> tbl]
  ELSE IF site.user_id = 0 THEN [err |-> "user_id is required", tbl |-> tbl]
  ELSE IF site.webroot = "" THEN [err |-> "webroot is required", tbl |-> tbl]
  ELSE IF mode \notin {"php", "proxy", "static"} THEN [err |-> "invalid mode", tbl |-> tbl]
  ELSE [err |-> "", tbl |-> UpsertSite(tbl, id, site.domain, mode, site.rev, site.enabled, t)]

\* A soft delete that forgets to stamp deleted_at.
DisableSiteByDomain_NoStamp(tbl, domain, t) ==
  IF domain \in DOMAIN tbl
  THEN [tbl EXCEPT ![domain] = [@ EXCEPT !.enabled = FALSE, !.updated_at = t]]
  ELSE tbl

\* Store.DisableSiteByDomain: UPDATE sites SET enabled = 0,
\* deleted_at = COALESCE(deleted_at, now), updated_at = now WHERE domain = ?
DisableSiteByDomain(tbl, domain, t) ==
  IF domain \in DOMAIN tbl
  THEN [tbl EXCEPT ![domain] =
          [@ EXCEPT !.enabled = FALSE,
                    !.deleted_at = IF @ = NullTime THEN t ELSE @,
                    !.updated_at = t]]
  ELSE tbl

\* Store.EnableSiteByDomain: UPDATE sites SET enabled = 1, deleted_at = NULL, updated_at = now
EnableSiteByDomain(tbl, domain, t) ==
  IF domain \in DOMAIN tbl
  THEN [tbl EXCEPT ![domain] =
          [@ EXCEPT !.enabled = TRUE, !.deleted_at = NullTime, !.updated_at = t]]
  ELSE tbl

\* An UpdateApplyResult that writes the status and the error only.
UpdateApplyResult_StatusOnly(tbl, domain, status, errMsg, renderHash, t) ==
  IF domain \in DOMAIN tbl
  THEN [tbl EXCEPT ![domain] =
          [@ EXCEPT !.last_apply_status = status, !.last_apply_error = errMsg]]
  ELSE tbl

\* Store.UpdateApplyResult: UPDATE sites SET last_apply_status, last_apply_error,
\* last_render_hash, last_applied_at = now WHERE domain = ?
UpdateApplyResult(tbl, domain, status, errMsg, renderHash, t) ==
  IF domain \in DOMAIN tbl
  THEN [tbl EXCEPT ![domain] =
          [@ EXCEPT !.last_apply_status = status, !.last_apply_error = errMsg,
                    !.last_render_hash = renderHash, !.last_applied_at = t]]
  ELSE tbl

\* Where the transaction of DeleteSiteByDomain may fail: nowhere, at the DELETE of the
\* proxy targets, of the apply runs, of the site row, or at Commit.
FailPoints == {"none", "children", "runs", "site", "commit"}

\* A failed transaction whose statements stay applied.
Rollback_Keep(before, partial) == partial

\* defer func() { if err != nil { tx.Rollback() } }: the tables are as before Begin.
Rollback(before, partial) == before

\* Store.DeleteSiteByDomain on the tables st = [sites, proxyTargets, applyRuns]: in one
\* transaction, SELECT id (an error for an unknown domain), DELETE the proxy targets, the
\* apply runs and the site row, Commit.  Returns the error flag and the tables.
DeleteSiteByDomain(st, domain, failAt) ==
  IF domain \notin DOMAIN st.sites THEN [err |-> TRUE, st |-> Rollback(st, st)]
  ELSE
    LET siteID == st.sites[domain].id
        s1 == [st EXCEPT !.proxyTargets = {r \in @ : r.site_id # siteID}]
        s2 == [s1 EXCEPT !.applyRuns = {r \in @ : r.site_id # siteID}]
        s3 == [s2 EXCEPT !.sites = [x \in (DOMAIN @) \ {domain} |-> @[x]]]
    IN  CASE failAt = "children" -> [err |-> TRUE, st |-> Rollback(st, st)]
          [] failAt = "runs"     -> [err |-> TRUE, st |-> Rollback(st, s1)]
          [] failAt = "site"     -> [err |-> TRUE, st |-> Rollback(st, s2)]
          [] failAt = "commit"   -> [err |-> TRUE, st |-> Rollback(st, s3)]
          [] OTHER               -> [err |-> FALSE, st |-> s3]

\* Store.UpsertProxyTarget: INSERT ... ON CONFLICT(site_id, target) DO UPDATE SET enabled
UpsertProxyTarget(tbl, siteID, target, enabled) ==
  {r \in tbl : ~(r.site_id = siteID /\ r.target = target)}
    \cup {[site_id |-> siteID, target |-> target, enabled |-> enabled]}

\* Store.DisableProxyTarget: UPDATE proxy_targets SET enabled = 0 WHERE site_id = ? AND target = ?
DisableProxyTarget(tbl, siteID, target) ==
  {IF r.site_id = siteID /\ r.target = target THEN [r EXCEPT !.enabled = FALSE] ELSE r : r \in tbl}

\* Store.ListProxyTargetsBySiteID: the enabled targets of the site.
ListProxyTargetsBySiteID(tbl, siteID) ==
  {r.target : r \in {x \in tbl : x.site_id = siteID /\ x.enabled}}

\* Store.ListSites: every row, ORDER BY domain ASC.
ListSites(tbl) ==
  LET present == SelectSeq(DomainOrder, LAMBDA x : x \in DOMAIN tbl)
  IN  [k \in 1..Len(present) |-> tbl[present[k]]]

\* An applyDefaults that keeps test_before_reload as the YAML file gives it.
applyDefaults_AsGiven(yamlTestBeforeReload) == [testBeforeReload |-> yamlTestBeforeReload]

\* Config.applyDefaults: test_before_reload is forced to true when it is false.
applyDefaults(yamlTestBeforeReload) ==
  [testBeforeReload |-> IF ~yamlTestBeforeReload THEN TRUE ELSE yamlTestBeforeReload]

\* ------------------------------------------------------------ nginx driver
\* A Publish that never takes the equal-bytes shortcut.
PublishUnchanged_Never(liveF, data, d) == FALSE

\* bytes.Equal(live, data) on an existing live file: Publish returns changed=false.
PublishUnchanged(liveF, data, d) == liveF[d] # Absent /\ liveF[d] = data

\* A publish that overwrites the live file without taking the backup first.
PublishBackup_Skip(liveF, bakF, d) == bakF

\* Manager.Publish, "Backup current live file (if exists)": WriteFileAtomic(bak, old).
PublishBackup(liveF, bakF, d) ==
  IF liveF[d] # Absent THEN [bakF EXCEPT ![d] = liveF[d]] ELSE bakF

\* Manager.Publish, "Publish new file atomically": WriteFileAtomic(dst, data).
PublishLive(liveF, data, d) == [liveF EXCEPT ![d] = data]

\* A RemoveLiveSite that removes the live file without saving it.
RemoveBackup_Skip(liveF, bakF, d) == bakF

\* Manager.RemoveLiveSite, "backup existing": WriteFileAtomic(bak, old).
RemoveBackup(liveF, bakF, d) == [bakF EXCEPT ![d] = liveF[d]]

\* Manager.RemoveLiveSite, "remove live": os.Remove(dst).
RemoveLive(liveF, d) == [liveF EXCEPT ![d] = Absent]

\* rollbackFromBackup, one domain: a readable non-empty backup is copied back over the
\* live file; otherwise the live file is removed.
rollbackOne(liveF, bakF, d) ==
  IF bakF[d] # Absent THEN [liveF EXCEPT ![d] = bakF[d]] ELSE [liveF EXCEPT ![d] = Absent]

\* ------------------------------------------------------------ apply pipeline
\* A siteNeedsApply that does not compare updated_at with last_applied_at.
siteNeedsApply_NoEdits(s) ==
  s.enabled /\ (s.last_applied_at = NullTime \/ s.last_apply_status # "ok")

\* siteNeedsApply: enabled, and never applied, or last apply not ok, or edited since.
siteNeedsApply(s) ==
  IF ~s.enabled THEN FALSE
  ELSE IF s.last_applied_at = NullTime THEN TRUE
  ELSE IF s.last_apply_status # "ok" THEN TRUE
  ELSE s.updated_at > s.last_applied_at

\* computeSiteState: the state the site list reports for a row.
computeSiteState(s) ==
  IF ~s.enabled THEN "DISABLED"
  ELSE IF s.last_apply_status = "fail" THEN "ERROR"
  ELSE IF siteNeedsApply(s) THEN "PENDING"
  ELSE IF s.last_apply_status = "ok" THEN "OK"
  ELSE "PENDING"

\* fmt.Errorf("proxy mode requires at least 1 proxy target for %s", domain)
ProxyErr == "proxy mode requires at least 1 proxy target"

\* RenderSiteToStaging fails (template parse or execute, mkdir, write of the staged file).
RenderErr == "render to staging failed"

\* Publish fails at the write of the live file.
PublishErr == "publish failed"

\* A buildTemplateData that accepts a proxy site without targets.
buildTemplateData_NoCheck(s, d, targetsTbl) ==
  [ok |-> TRUE, err |-> "",
   td |-> <<d, s.mode, s.rev,
            IF s.mode = "proxy" THEN ListProxyTargetsBySiteID(targetsTbl, s.id) ELSE {}>>]

\* App.buildTemplateData: a proxy site loads its enabled targets and fails without any;
\* the template data carries everything the rendered bytes depend on.
buildTemplateData(s, d, targetsTbl) ==
  LET targets == IF s.mode = "proxy" THEN ListProxyTargetsBySiteID(targetsTbl, s.id) ELSE {}
  IN  IF s.mode = "proxy" /\ targets = {}
      THEN [ok |-> FALSE, err |-> ProxyErr, td |-> <<>>]
      ELSE [ok |-> TRUE, err |-> "", td |-> <<d, s.mode, s.rev, targets>>]

\* Manager.RenderSiteToStaging: the template executed on the data; deterministic bytes.
RenderBytes(td) == <<"vhost", td>>

\* sort.Slice(res.Domains, by Domain).
SortByDomain(rows) ==
  LET has(x) == \E k \in 1..Len(rows) : rows[k].domain = x
      present == SelectSeq(DomainOrder, has)
  IN  [k \in 1..Len(present) |->
         rows[CHOOSE j \in 1..Len(rows) : rows[j].domain = present[k]]]

Requests ==
  {r \in [domain : Domains \cup {""}, all : BOOLEAN, dry : BOOLEAN, limit : 0..MaxLimit] :
     r.domain # "" => (~r.all /\ r.limit = 0)}

NoReq == [domain |-> "", all |-> FALSE, dry |-> FALSE, limit |-> 0]
NoUpd == [action |-> "", status |-> "", msg |-> "", hash |-> NoHash]

\* The frame of a goroutine that is not inside Apply.
IdleFrame ==
  [ pc |-> "idle", req |-> NoReq, sites |-> <<>>, i |-> 0, applied |-> 0,
    changed |-> <<>>, changedHashes |-> [x \in Domains |-> NoHash],
    res |-> <<>>, resChanged |-> <<>>, reloaded |-> FALSE, err |-> "",
    d |-> "", renderHash |-> NoHash, data |-> Absent, changedNow |-> FALSE,
    upd |-> NoUpd, rb |-> 0,
    \* history of this call
    liveAtStart |-> [x \in Domains |-> Absent], updLog |-> <<>>,
    prev |-> "none", edited |-> FALSE,
    \* how many times this call has invoked a.ng.TestConfig() and a.ng.Reload()
    tests |-> 0, reloads |-> 0 ]

ApplyDomainResult(d, action, changed, hash, status, error) ==
  [domain |-> d, action |-> action, changed |-> changed, hash |-> hash,
   status |-> status, error |-> error]

\* ------------------------------------------------------------------- Init
\* After app.New on an empty database and empty nginx directories (EnsureLayout).
Init ==
  /\ now = 1
  /\ sites = <<>>
  /\ nextId = 1
  /\ proxyTargets = {}
  /\ applyRuns = {}
  /\ stage = [x \in Domains |-> Absent]
  /\ live = [x \in Domains |-> Absent]
  /\ bak = [x \in Domains |-> Absent]
  /\ cfg \in {applyDefaults(y) : y \in BOOLEAN}
  /\ applyMu = Unlocked
  /\ fr = [t \in Threads |-> IdleFrame]
  /\ quiet = "none"
  /\ edits = 0
  /\ calls = 0
  /\ faults = 0
  /\ disk = NoDisk
  /\ call = NoCall

\* A host on which a.test was added (proxy, one target), applied, disabled and applied
\* again, all within one millisecond: the row is disabled with status ok, the live file
\* is gone and the backup directory keeps the bytes RemoveLiveSite saved.
DisabledSiteTargets == UpsertProxyTarget({}, 1, "up1", TRUE)

DisabledSiteTd ==
  buildTemplateData(NewSiteRow(1, "a.test", "proxy", 1, TRUE, 1), "a.test", DisabledSiteTargets).td

DisabledSiteStore ==
  LET added    == UpsertSite(<<>>, 1, "a.test", "proxy", 1, TRUE, 1)
      applied  == UpdateApplyResult(added, "a.test", "ok", "", Sha256Hex(RenderBytes(DisabledSiteTd)), 1)
      disabled == DisableSiteByDomain(applied, "a.test", 1)
  IN  UpdateApplyResult(disabled, "a.test", "ok", "", NoHash, 1)

InitDisabledSite ==
  LET none      == [x \in Domains |-> Absent]
      published == PublishLive(none, RenderBytes(DisabledSiteTd), "a.test")
  IN
  /\ now = 1
  /\ sites = DisabledSiteStore
  /\ nextId = 2
  /\ proxyTargets = DisabledSiteTargets
  /\ applyRuns = {}
  /\ stage = published
  /\ bak = RemoveBackup(published, none, "a.test")
  /\ live = RemoveLive(published, "a.test")
  /\ cfg \in {applyDefaults(y) : y \in BOOLEAN}
  /\ applyMu = Unlocked
  /\ fr = [t \in Threads |-> IdleFrame]
  /\ quiet = "cleanPending"
  /\ edits = 0
  /\ calls = 0
  /\ faults = 0
  /\ disk = NoDisk
  /\ call = NoCall

InitSeq == Init \/ InitDisabledSite

\* --------------------------------------------------- handlers that edit the store
\* History: a store edit ends the "unchanged desired state" of every Apply under way.
MarkEdited(frames) ==
  [t \in Threads |->
     IF frames[t].pc \in {"idle", "lock"} THEN frames[t] ELSE [frames[t] EXCEPT !.edited = TRUE]]

Edited == /\ edits < MaxEdits
          /\ edits' = edits + 1
          /\ quiet' = "none"
          /\ fr' = MarkEdited(fr)
          /\ UNCHANGED <<stage, live, bak, cfg, applyMu, calls, faults, ioVars>>

\* The clock advances.
Tick ==
  /\ now < MaxClock
  /\ now' = now + 1
  /\ UNCHANGED <<sites, nextId, proxyTargets, applyRuns, stage, live, bak, cfg, applyMu, fr, quiet, edits, calls, faults, ioVars>>

\* App.SiteAdd (ApplyNow=false, SkipCert=true) of a new domain: UpsertSite with
\* Enabled=true, then the proxy targets given on create.  (On an existing domain its
\* UpsertSite is that of SiteEdit with Enabled=true.)
SiteAdd(d, mode, rev, targets) ==
  /\ d \notin DOMAIN sites
  /\ sites' = UpsertSite(sites, nextId, d, mode, rev, TRUE, now)
  /\ nextId' = IF d \in DOMAIN sites THEN nextId ELSE nextId + 1
  /\ proxyTargets' =
       IF mode = "proxy" /\ targets # {}
       THEN LET tg == CHOOSE x \in targets : TRUE
            IN  UpsertProxyTarget(proxyTargets, sites'[d].id, tg, TRUE)
       ELSE proxyTargets
  /\ UNCHANGED <<now, applyRuns>>
  /\ Edited

\* App.SiteEdit (ApplyNow=false): GetSiteByDomain, then UpsertSite with the edited fields.
SiteEdit(d, mode, rev, enabled) ==
  /\ d \in DOMAIN sites
  /\ sites' = UpsertSite(sites, nextId, d, mode, rev, enabled, now)
  /\ UNCHANGED <<now, nextId, proxyTargets, applyRuns>>
  /\ Edited

\* App.SiteDisable: Store.DisableSiteByDomain.
SiteDisable(d) ==
  /\ d \in DOMAIN sites
  /\ sites' = DisableSiteByDomain(sites, d, now)
  /\ UNCHANGED <<now, nextId, proxyTargets, applyRuns>>
  /\ Edited

\* Store.EnableSiteByDomain.
SiteEnable(d) ==
  /\ d \in DOMAIN sites
  /\ sites' = EnableSiteByDomain(sites, d, now)
  /\ UNCHANGED <<now, nextId, proxyTargets, applyRuns>>
  /\ Edited

\* A hard delete that is accepted for any site.
SiteDeleteAllowed_Any(s) == TRUE

\* App.SiteDelete accepts the hard delete of an already-disabled site only.
SiteDeleteAllowed(s) == ~s.enabled

\* The three tables, as DeleteSiteByDomain takes them.
Tables == [sites |-> sites, proxyTargets |-> proxyTargets, applyRuns |-> applyRuns]

\* App.SiteDelete: refuses an enabled site, else Store.DeleteSiteByDomain.  A refused or
\* failed delete leaves the store as it was.
SiteDelete(d, failAt) ==
  LET refused == d \in DOMAIN sites /\ ~SiteDeleteAllowed(sites[d])
      out     == IF refused THEN Tables ELSE DeleteSiteByDomain(Tables, d, failAt).st
  IN
  /\ edits < MaxEdits
  /\ edits' = edits + 1
  /\ sites' = out.sites
  /\ proxyTargets' = out.proxyTargets
  /\ applyRuns' = out.applyRuns
  /\ quiet' = IF out = Tables THEN quiet ELSE "none"
  /\ fr' = IF out = Tables THEN fr ELSE MarkEdited(fr)
  /\ UNCHANGED <<now, nextId, stage, live, bak, cfg, applyMu, calls, faults, ioVars>>

\* Proxy-target handlers of the UI: upsert or disable one target of a proxy site.
ProxyTargetUpsert(d, tg) ==
  /\ d \in DOMAIN sites
  /\ sites[d].mode = "proxy"
  /\ proxyTargets' = UpsertProxyTarget(proxyTargets, sites[d].id, tg, TRUE)
  /\ proxyTargets' # proxyTargets
  /\ UNCHANGED <<now, sites, nextId, applyRuns>>
  /\ Edited

ProxyTargetDisable(d, tg) ==
  /\ d \in DOMAIN sites
  /\ proxyTargets' = DisableProxyTarget(proxyTargets, sites[d].id, tg)
  /\ proxyTargets' # proxyTargets
  /\ UNCHANGED <<now, sites, nextId, applyRuns>>
  /\ Edited

\* ------------------------------------------------------------ App.Apply, by steps
Single(f) == f.req.domain # ""

\* An Apply that does not look at req.DryRun.
DryRun_Ignored(req) == FALSE

\* req.DryRun (dry, in applyOne).
DryRun(req) == req.dry

\* An Apply that takes the mutex whether or not it is held.
LockAcquirable_NoMutex(mu) == TRUE

\* a.applyMu.Lock() returns only when the mutex is unlocked.
LockAcquirable(mu) == mu = Unlocked

\* Apply is called: the goroutine reaches a.applyMu.Lock().
Call(t) ==
  /\ fr[t].pc = "idle"
  /\ calls < MaxCalls
  /\ calls' = calls + 1
  /\ fr' = [fr EXCEPT ![t] = [IdleFrame EXCEPT !.pc = "lock"]]
  /\ UNCHANGED <<now, sites, nextId, proxyTargets, applyRuns, stage, live, bak, cfg, applyMu, quiet, edits, faults, ioVars>>

\* Lock() succeeds; the request (an argument of the call, first read here) is req.
Lock(t, req) ==
  /\ fr[t].pc = "lock"
  /\ LockAcquirable(applyMu)
  /\ applyMu' = t
  /\ fr' = [fr EXCEPT ![t] = [IdleFrame EXCEPT
               !.pc = IF req.domain # "" THEN "one" ELSE "list",
               !.req = req, !.liveAtStart = live, !.prev = quiet]]
  /\ UNCHANGED <<now, sites, nextId, proxyTargets, applyRuns, stage, live, bak, cfg, quiet, edits, calls, faults, ioVars>>

\* sites, err := a.st.ListSites()
StepList(t) ==
  /\ fr[t].pc = "list"
  /\ fr' = [fr EXCEPT ![t] = [@ EXCEPT !.pc = "loop", !.sites = ListSites(sites), !.i = 1]]
  /\ UNCHANGED <<now, sites, nextId, proxyTargets, applyRuns, stage, live, bak, cfg, applyMu, quiet, edits, calls, faults, ioVars>>

\* A pipeline that reloads without running nginx -t.
ValidatePc_NoTest == "reload"

\* Where the pipeline goes once something was published or removed.
ValidatePc == IF cfg.testBeforeReload THEN "test" ELSE "reload"

\* A loop that never looks at the limit.
LoopBreak_NoLimit(f) == f.i > Len(f.sites)

\* The loop ends after the last site, or at
\* `if req.Limit > 0 && applied >= req.Limit { break }`.
LoopBreak(f) == f.i > Len(f.sites) \/ (f.req.limit > 0 /\ f.applied >= f.req.limit)

\* A batch that validates and reloads whatever the loop did.
AfterLoopPc_Always(f) == ValidatePc

\* After the loop: `if req.DryRun || len(changed) == 0 { return res, nil }`.
AfterLoopPc(f) == IF DryRun(f.req) \/ Len(f.changed) = 0 THEN "ret" ELSE ValidatePc

\* One turn of the batch loop up to its first file or store write: the limit check, the
\* dispatch on the site, buildTemplateData and RenderSiteToStaging; after the loop, the
\* sort and the decision to return or to validate.
StepLoop(t) ==
  LET f == fr[t] IN
  /\ f.pc = "loop"
  /\ UNCHANGED <<now, sites, nextId, proxyTargets, applyRuns, live, bak, cfg, applyMu, quiet, edits, calls, ioVars>>
  /\ IF LoopBreak(f)
     THEN /\ stage' = stage /\ faults' = faults
          /\ fr' = [fr EXCEPT ![t] = [f EXCEPT
                      !.res = SortByDomain(f.res),
                      !.pc = AfterLoopPc(f)]]
     ELSE LET s == f.sites[f.i]
              d == s.domain
              b == buildTemplateData(s, d, proxyTargets)
          IN
          IF ~s.enabled
          THEN /\ stage' = stage /\ faults' = faults
               /\ IF DryRun(f.req)
                  THEN fr' = [fr EXCEPT ![t] = [f EXCEPT
                         !.res = Append(f.res, ApplyDomainResult(d, "delete", FALSE, NoHash, "dry-run", "")),
                         !.applied = f.applied + 1, !.i = f.i + 1]]
                  ELSE fr' = [fr EXCEPT ![t] = [f EXCEPT !.pc = "del", !.d = d]]
          ELSE IF ~f.req.all /\ ~siteNeedsApply(s)
          THEN /\ stage' = stage /\ faults' = faults
               /\ fr' = [fr EXCEPT ![t] = [f EXCEPT
                         !.res = Append(f.res, ApplyDomainResult(d, "skip", FALSE, NoHash, "skipped", "")),
                         !.i = f.i + 1]]
          ELSE IF DryRun(f.req)
          THEN /\ stage' = stage /\ faults' = faults
               /\ fr' = [fr EXCEPT ![t] = [f EXCEPT
                         !.res = Append(f.res, ApplyDomainResult(d, "apply", FALSE, NoHash, "dry-run", "")),
                         !.applied = f.applied + 1, !.i = f.i + 1]]
          ELSE IF ~b.ok
          THEN /\ stage' = stage /\ faults' = faults
               /\ fr' = [fr EXCEPT ![t] = [f EXCEPT !.pc = "upd", !.d = d, !.changedNow = FALSE,
                         !.upd = [action |-> "apply", status |-> "fail", msg |-> b.err, hash |-> NoHash]]]
          ELSE \E rendered \in {TRUE} \cup {x \in {FALSE} : faults < MaxFaults} :
                 IF ~rendered
                 THEN /\ stage' = stage /\ faults' = faults + 1
                      /\ fr' = [fr EXCEPT ![t] = [f EXCEPT !.pc = "upd", !.d = d, !.changedNow = FALSE,
                                !.upd = [action |-> "apply", status |-> "fail", msg |-> RenderErr, hash |-> NoHash]]]
                 ELSE /\ stage' = [stage EXCEPT ![d] = RenderBytes(b.td)] /\ faults' = faults
                      /\ fr' = [fr EXCEPT ![t] = [f EXCEPT !.pc = "publish", !.d = d,
                                !.renderHash = Sha256Hex(RenderBytes(b.td))]]

\* applyOne up to its first file or store write: GetSiteByDomain, the dry-run return,
\* the dispatch on Enabled, buildTemplateData and RenderSiteToStaging.
StepOne(t) ==
  LET f == fr[t]
      d == f.req.domain
  IN
  /\ f.pc = "one"
  /\ UNCHANGED <<now, sites, nextId, proxyTargets, applyRuns, live, bak, cfg, applyMu, quiet, edits, calls, ioVars>>
  /\ IF d \notin DOMAIN sites
     THEN /\ stage' = stage /\ faults' = faults
          /\ fr' = [fr EXCEPT ![t] = [f EXCEPT !.pc = "ret", !.err = "get site",
                      !.res = <<ApplyDomainResult(d, "apply", FALSE, NoHash, "fail", "get site")>>]]
     ELSE LET s == sites[d]
              b == buildTemplateData(s, d, proxyTargets)
          IN
          IF DryRun(f.req)
          THEN /\ stage' = stage /\ faults' = faults
               /\ fr' = [fr EXCEPT ![t] = [f EXCEPT !.pc = "ret",
                      !.res = <<ApplyDomainResult(d, IF s.enabled THEN "apply" ELSE "delete",
                                                  FALSE, NoHash, "dry-run", "")>>]]
          ELSE IF ~s.enabled
          THEN /\ stage' = stage /\ faults' = faults
               /\ fr' = [fr EXCEPT ![t] = [f EXCEPT !.pc = "del", !.d = d, !.sites = <<s>>, !.i = 1]]
          ELSE IF ~b.ok
          THEN /\ stage' = stage /\ faults' = faults
               /\ fr' = [fr EXCEPT ![t] = [f EXCEPT !.pc = "upd", !.d = d, !.sites = <<s>>, !.i = 1,
                         !.changedNow = FALSE, !.err = b.err,
                         !.upd = [action |-> "apply", status |-> "fail", msg |-> b.err, hash |-> NoHash]]]
          ELSE \E rendered \in {TRUE} \cup {x \in {FALSE} : faults < MaxFaults} :
                 IF ~rendered
                 THEN /\ stage' = stage /\ faults' = faults + 1
                      /\ fr' = [fr EXCEPT ![t] = [f EXCEPT !.pc = "upd", !.d = d, !.sites = <<s>>, !.i = 1,
                                !.changedNow = FALSE, !.err = RenderErr,
                                !.upd = [action |-> "apply", status |-> "fail", msg |-> RenderErr, hash |-> NoHash]]]
                 ELSE /\ stage' = [stage EXCEPT ![d] = RenderBytes(b.td)] /\ faults' = faults
                      /\ fr' = [fr EXCEPT ![t] = [f EXCEPT !.pc = "publish", !.d = d, !.sites = <<s>>, !.i = 1,
                                !.renderHash = Sha256Hex(RenderBytes(b.td))]]

\* History: one more UpdateApplyResult call of this Apply call.
Logged(f, d, status) == Append(f.updLog, [domain |-> d, status |-> status])

\* stageDeleteLiveConf: os.Stat(live); when the file exists, RemoveLiveSite first writes
\* the backup.  With no live file applyOne returns ok/changed=false at once; the batch
\* loop goes on to UpdateApplyResult(d, "ok").
StepDel(t) ==
  LET f == fr[t] IN
  /\ f.pc = "del"
  /\ UNCHANGED <<now, sites, nextId, proxyTargets, applyRuns, stage, live, cfg, applyMu, quiet, edits, calls, faults, ioVars>>
  /\ IF live[f.d] = Absent
     THEN /\ bak' = bak
          /\ IF Single(f)
             THEN fr' = [fr EXCEPT ![t] = [f EXCEPT !.pc = "ret",
                         !.res = <<ApplyDomainResult(f.d, "delete", FALSE, NoHash, "ok", "")>>]]
             ELSE fr' = [fr EXCEPT ![t] = [f EXCEPT !.pc = "upd", !.changedNow = FALSE,
                         !.upd = [action |-> "delete", status |-> "ok", msg |-> "", hash |-> NoHash]]]
     ELSE /\ bak' = RemoveBackup(live, bak, f.d)
          /\ fr' = [fr EXCEPT ![t] = [f EXCEPT !.pc = "del_rm"]]

\* RemoveLiveSite, second half: os.Remove(live).  The batch loop records ok next; applyOne
\* validates first.
StepDelRm(t) ==
  LET f == fr[t]
      u == [action |-> "delete", status |-> "ok", msg |-> "", hash |-> NoHash]
  IN
  /\ f.pc = "del_rm"
  /\ live' = RemoveLive(live, f.d)
  /\ IF Single(f)
     THEN fr' = [fr EXCEPT ![t] = [f EXCEPT !.pc = ValidatePc, !.changedNow = TRUE, !.upd = u,
                   !.changed = <<f.d>>, !.changedHashes = [@ EXCEPT ![f.d] = NoHash]]]
     ELSE fr' = [fr EXCEPT ![t] = [f EXCEPT !.pc = "upd", !.changedNow = TRUE, !.upd = u]]
  /\ UNCHANGED <<now, sites, nextId, proxyTargets, applyRuns, stage, bak, cfg, applyMu, quiet, edits, calls, faults, ioVars>>

\* Manager.Publish, first half: read the staged file, return changed=false when the live
\* file holds the same bytes, else back up the live file if there is one.
StepPublish(t) ==
  LET f == fr[t]
      data == stage[f.d]
  IN
  /\ f.pc = "publish"
  /\ UNCHANGED <<now, sites, nextId, proxyTargets, applyRuns, stage, live, cfg, applyMu, quiet, edits, calls, faults, ioVars>>
  /\ IF data = Absent
     THEN /\ bak' = bak
          /\ fr' = [fr EXCEPT ![t] = [f EXCEPT !.pc = "upd", !.changedNow = FALSE,
                      !.err = IF Single(f) THEN "read staging" ELSE f.err,
                      !.upd = [action |-> "apply", status |-> "fail", msg |-> "read staging",
                               hash |-> f.renderHash]]]
     ELSE IF PublishUnchanged(live, data, f.d)
     THEN /\ bak' = bak
          /\ fr' = [fr EXCEPT ![t] = [f EXCEPT !.pc = "upd", !.changedNow = FALSE,
                      !.upd = [action |-> "apply", status |-> "ok", msg |-> "", hash |-> f.renderHash]]]
     ELSE /\ bak' = PublishBackup(live, bak, f.d)
          /\ fr' = [fr EXCEPT ![t] = [f EXCEPT !.pc = "pub_live", !.data = data]]

\* Manager.Publish, second half: the staged bytes are written over the live file, or the
\* atomic write fails and the live file stays as it was.
StepPubLive(t) ==
  LET f == fr[t]
      u == [action |-> "apply", status |-> "ok", msg |-> "", hash |-> f.renderHash]
      e == [action |-> "apply", status |-> "fail", msg |-> PublishErr, hash |-> f.renderHash]
  IN
  /\ f.pc = "pub_live"
  /\ \E written \in {TRUE} \cup {x \in {FALSE} : faults < MaxFaults} :
       IF ~written
       THEN /\ live' = live /\ faults' = faults + 1
            /\ fr' = [fr EXCEPT ![t] = [f EXCEPT !.pc = "upd", !.changedNow = FALSE, !.upd = e,
                        !.data = Absent, !.err = IF Single(f) THEN PublishErr ELSE f.err]]
       ELSE /\ live' = PublishLive(live, f.data, f.d) /\ faults' = faults
            /\ IF Single(f)
               THEN fr' = [fr EXCEPT ![t] = [f EXCEPT !.pc = ValidatePc, !.changedNow = TRUE, !.upd = u,
                             !.data = Absent,
                             !.changed = <<f.d>>, !.changedHashes = [@ EXCEPT ![f.d] = f.renderHash]]]
               ELSE fr' = [fr EXCEPT ![t] = [f EXCEPT !.pc = "upd", !.changedNow = TRUE, !.upd = u,
                             !.data = Absent]]
  /\ UNCHANGED <<now, sites, nextId, proxyTargets, applyRuns, stage, bak, cfg, applyMu, quiet, edits, calls, ioVars>>

\* A batch loop that returns at the first site that fails.
ContinuePc_Abort == "ret"

\* `continue` after a failed site: the batch loop takes the next site.
ContinuePc == "loop"

\* updater.UpdateApplyResult(d, status, msg, hash) and the result row of the site.  The
\* batch loop then appends a changed site to `changed` and takes the next site; applyOne
\* returns.
StepUpd(t) ==
  LET f == fr[t]
      row == ApplyDomainResult(f.d, f.upd.action, f.changedNow, f.upd.hash, f.upd.status, f.upd.msg)
  IN
  /\ f.pc = "upd"
  /\ sites' = UpdateApplyResult(sites, f.d, f.upd.status, f.upd.msg, f.upd.hash, now)
  /\ IF Single(f)
     THEN fr' = [fr EXCEPT ![t] = [f EXCEPT !.pc = "ret", !.res = <<row>>,
                   !.resChanged = IF f.changedNow THEN <<f.d>> ELSE <<>>,
                   !.updLog = Logged(f, f.d, f.upd.status)]]
     ELSE fr' = [fr EXCEPT ![t] = [f EXCEPT !.res = Append(f.res, row),
                   !.pc = IF f.upd.status = "fail" THEN ContinuePc ELSE "loop",
                   !.changed = IF f.changedNow THEN Append(f.changed, f.d) ELSE f.changed,
                   !.changedHashes = IF f.changedNow THEN [@ EXCEPT ![f.d] = f.upd.hash] ELSE @,
                   !.applied = f.applied + 1, !.i = f.i + 1,
                   !.d = "", !.renderHash = NoHash, !.changedNow = FALSE, !.upd = NoUpd,
                   !.updLog = Logged(f, f.d, f.upd.status)]]
  /\ UNCHANGED <<now, nextId, proxyTargets, applyRuns, stage, live, bak, cfg, applyMu, quiet, edits, calls, faults, ioVars>>

\* a.ng.TestConfig(): nginx -t passes or fails; a failure starts the rollback.
StepTest(t) ==
  LET f == fr[t] IN
  /\ f.pc = "test"
  /\ \E ok \in {TRUE} \cup {x \in {FALSE} : faults < MaxFaults} :
       /\ faults' = IF ok THEN faults ELSE faults + 1
       /\ fr' = [fr EXCEPT ![t] =
                IF ok THEN [f EXCEPT !.pc = "reload", !.tests = f.tests + 1]
                ELSE [f EXCEPT !.pc = "rollback", !.rb = 1, !.tests = f.tests + 1,
                               !.err = "nginx -t failed (rolled back)"]]
  /\ UNCHANGED <<now, sites, nextId, proxyTargets, applyRuns, stage, live, bak, cfg, applyMu, quiet, edits, calls, ioVars>>

\* a.ng.Reload(): on success the batch returns Changed and Reloaded=true, applyOne goes on
\* to record ok; a failure starts the rollback.
StepReload(t) ==
  LET f == fr[t] IN
  /\ f.pc = "reload"
  /\ \E ok \in {TRUE} \cup {x \in {FALSE} : faults < MaxFaults} :
       /\ faults' = IF ok THEN faults ELSE faults + 1
       /\ fr' = [fr EXCEPT ![t] =
                IF ~ok
                THEN [f EXCEPT !.pc = "rollback", !.rb = 1, !.reloads = f.reloads + 1,
                               !.err = "nginx reload failed (rolled back)"]
                ELSE IF Single(f) THEN [f EXCEPT !.pc = "upd", !.reloads = f.reloads + 1]
                ELSE [f EXCEPT !.pc = "ret", !.resChanged = f.changed, !.reloaded = TRUE,
                               !.reloads = f.reloads + 1]]
  /\ UNCHANGED <<now, sites, nextId, proxyTargets, applyRuns, stage, live, bak, cfg, applyMu, quiet, edits, calls, ioVars>>

\* rollbackFromBackup(a.ng, changed), one domain per step.
StepRollback(t) ==
  LET f == fr[t] IN
  /\ f.pc = "rollback"
  /\ live' = rollbackOne(live, bak, f.changed[f.rb])
  /\ fr' = [fr EXCEPT ![t] =
              IF f.rb < Len(f.changed) THEN [f EXCEPT !.rb = f.rb + 1]
              ELSE [f EXCEPT !.pc = "recover", !.rb = 0]]
  /\ UNCHANGED <<now, sites, nextId, proxyTargets, applyRuns, stage, bak, cfg, applyMu, quiet, edits, calls, faults, ioVars>>

\* _ = a.ng.Reload(): the recovery reload, its outcome ignored.
StepRecover(t) ==
  LET f == fr[t] IN
  /\ f.pc = "recover"
  /\ fr' = [fr EXCEPT ![t] = [f EXCEPT !.pc = "mark", !.rb = 1, !.reloads = f.reloads + 1]]
  /\ UNCHANGED <<now, sites, nextId, proxyTargets, applyRuns, stage, live, bak, cfg, applyMu, quiet, edits, calls, faults, ioVars>>

\* UpdateApplyResult(d, "fail", "... (rolled back)", changedHashes[d]) for each changed
\* domain, one per step; applyOne also builds its fail row.
StepMark(t) ==
  LET f == fr[t]
      d == f.changed[f.rb]
      last == f.rb = Len(f.changed)
  IN
  /\ f.pc = "mark"
  /\ sites' = UpdateApplyResult(sites, d, "fail", f.err, f.changedHashes[d], now)
  /\ fr' = [fr EXCEPT ![t] =
              IF ~last THEN [f EXCEPT !.rb = f.rb + 1, !.updLog = Logged(f, d, "fail")]
              ELSE IF Single(f)
              THEN [f EXCEPT !.pc = "ret", !.rb = 0, !.updLog = Logged(f, d, "fail"),
                      !.resChanged = <<d>>,
                      !.res = <<ApplyDomainResult(d, f.upd.action, f.upd.action = "apply",
                                                  f.changedHashes[d], "fail", f.err)>>]
              ELSE [f EXCEPT !.pc = "ret", !.rb = 0, !.updLog = Logged(f, d, "fail")]]
  /\ UNCHANGED <<now, nextId, proxyTargets, applyRuns, stage, live, bak, cfg, applyMu, quiet, edits, calls, faults, ioVars>>

\* History: what the Apply call that returns was, for the next call.
ApplyKind(f) ==
  IF f.edited THEN "none"
  ELSE IF Single(f) \/ f.req.dry \/ f.req.limit > 0 THEN "partial"
  ELSE IF f.err = "" /\ \A k \in 1..Len(f.res) : f.res[k].status \in {"ok", "skipped"}
       THEN (IF f.req.all THEN "cleanAll" ELSE "cleanPending")
  ELSE "failed"

\* An Apply that returns without unlocking.
Return_NoUnlock(t) ==
  /\ fr[t].pc = "ret"
  /\ quiet' = ApplyKind(fr[t])
  /\ fr' = [fr EXCEPT ![t] = IdleFrame]
  /\ UNCHANGED <<now, sites, nextId, proxyTargets, applyRuns, stage, live, bak, cfg, applyMu, edits, calls, faults, ioVars>>

\* Apply returns: the deferred a.applyMu.Unlock().
Return(t) ==
  /\ fr[t].pc = "ret"
  /\ applyMu' = Unlocked
  /\ quiet' = ApplyKind(fr[t])
  /\ fr' = [fr EXCEPT ![t] = IdleFrame]
  /\ UNCHANGED <<now, sites, nextId, proxyTargets, applyRuns, stage, live, bak, cfg, edits, calls, faults, ioVars>>

ApplyStep(t) ==
  \/ Call(t)
  \/ \E req \in Requests : Lock(t, req)
  \/ StepList(t)
  \/ StepLoop(t)
  \/ StepOne(t)
  \/ StepDel(t)
  \/ StepDelRm(t)
  \/ StepPublish(t)
  \/ StepPubLive(t)
  \/ StepUpd(t)
  \/ StepTest(t)
  \/ StepReload(t)
  \/ StepRollback(t)
  \/ StepRecover(t)
  \/ StepMark(t)
  \/ Return(t)

StoreEdit ==
  \/ \E d \in Domains, m \in Modes, r \in 1..MaxRev, tg \in SUBSET Targets : SiteAdd(d, m, r, tg)
  \/ \E d \in Domains, m \in Modes, r \in 1..MaxRev, e \in BOOLEAN : SiteEdit(d, m, r, e)
  \/ \E d \in Domains : SiteDisable(d)
  \/ \E d \in Domains : SiteEnable(d)
  \/ \E d \in Domains, failAt \in FailPoints : SiteDelete(d, failAt)
  \/ \E d \in Domains, tg \in Targets : ProxyTargetUpsert(d, tg)
  \/ \E d \in Domains, tg \in Targets : ProxyTargetDisable(d, tg)

Next ==
  \/ Tick
  \/ StoreEdit
  \/ \E t \in Threads : ApplyStep(t)

\* Every goroutine of Threads may call Apply.
Spec == Init /\ [][Next]_vars

\* A sequential client (the CLI, one operator): one goroutine calls Apply and every
\* handler call returns before the next one is made.  A run starts on a fresh install or
\* on a host with one disabled, reconciled site.
SeqEdit == fr["h1"].pc = "idle" /\ StoreEdit

NextSeq ==
  \/ Tick
  \/ SeqEdit
  \/ ApplyStep("h1")

SpecSeq == InitSeq /\ [][NextSeq]_vars

\* A host on which a.test (static) was added and applied: the row is enabled with status
\* ok, and the staged and the live file hold its rendered vhost.
InitAppliedSite ==
  LET added     == UpsertSite(<<>>, 1, "a.test", "static", 1, TRUE, 1)
      data      == RenderBytes(buildTemplateData(added["a.test"], "a.test", {}).td)
      published == PublishLive([x \in Domains |-> Absent], data, "a.test")
  IN
  /\ now = 1
  /\ sites = UpdateApplyResult(added, "a.test", "ok", "", Sha256Hex(data), 1)
  /\ nextId = 2
  /\ proxyTargets = {}
  /\ applyRuns = {}
  /\ stage = published
  /\ live = published
  /\ bak = [x \in Domains |-> Absent]
  /\ cfg \in {applyDefaults(y) : y \in BOOLEAN}
  /\ applyMu = Unlocked
  /\ fr = [t \in Threads |-> IdleFrame]
  /\ quiet = "cleanPending"
  /\ edits = 0
  /\ calls = 0
  /\ faults = 0
  /\ disk = NoDisk
  /\ call = NoCall

\* The sequential client on a host that serves one applied site.
SpecSeqApplied == InitAppliedSite /\ [][NextSeq]_vars

\* ------------------------------------------- repeated `apply --limit 1`
\* A host with two sites.  b.test (static) was added and is pending.  a.test, first in
\* domain order, is pending too, or is a proxy site without targets (it fails on every
\* run), or is disabled with its live file removed, or is disabled with its live file
\* still in place.
InitLimit ==
  \E kind \in {"pending", "failing", "disabled", "disabledLive"} :
    LET none == [x \in Domains |-> Absent]
        a == CASE kind = "pending" -> NewSiteRow(1, "a.test", "static", 1, TRUE, 1)
               [] kind = "failing" -> NewSiteRow(1, "a.test", "proxy", 1, TRUE, 1)
               [] kind = "disabled" -> DisabledSiteStore["a.test"]
               [] OTHER -> DisableSiteByDomain(
                             UpdateApplyResult(UpsertSite(<<>>, 1, "a.test", "proxy", 1, TRUE, 1), "a.test", "ok", "",
                                               Sha256Hex(RenderBytes(DisabledSiteTd)), 1),
                             "a.test", 1)["a.test"]
        b == NewSiteRow(2, "b.test", "static", 1, TRUE, 1)
        published == PublishLive(none, RenderBytes(DisabledSiteTd), "a.test")
    IN
    /\ now = 1
    /\ sites = [x \in Domains |-> IF x = "a.test" THEN a ELSE b]
    /\ nextId = 3
    /\ proxyTargets = IF kind \in {"disabled", "disabledLive"} THEN DisabledSiteTargets ELSE {}
    /\ applyRuns = {}
    /\ stage = IF kind \in {"disabled", "disabledLive"} THEN published ELSE none
    /\ live = IF kind = "disabledLive" THEN published ELSE none
    /\ bak = IF kind = "disabled" THEN RemoveBackup(published, none, "a.test") ELSE none
    /\ cfg \in {applyDefaults(y) : y \in BOOLEAN}
    /\ applyMu = Unlocked
    /\ fr = [t \in Threads |-> IdleFrame]
    /\ quiet = "none"
    /\ edits = 0
    /\ calls = 0
    /\ faults = 0
    /\ disk = NoDisk
    /\ call = NoCall

\* The operator runs `ngm apply --limit 1` again: core.Apply is called once more.
CallAgain(t) ==
  /\ fr[t].pc = "idle"
  /\ fr' = [fr EXCEPT ![t] = [IdleFrame EXCEPT !.pc = "lock"]]
  /\ UNCHANGED <<now, sites, nextId, proxyTargets, applyRuns, stage, live, bak, cfg, applyMu, quiet, edits, calls, faults, ioVars>>

\* The steps of the batch Applies of goroutine h1, each with the request of
\* `ngm apply --limit 1`.
ApplyLimit ==
  \/ CallAgain("h1")
  \/ Lock("h1", [domain |-> "", all |-> FALSE, dry |-> FALSE, limit |-> 1])
  \/ StepList("h1")
  \/ StepLoop("h1")
  \/ StepDel("h1")
  \/ StepDelRm("h1")
  \/ StepPublish("h1")
  \/ StepPubLive("h1")
  \/ StepUpd("h1")
  \/ StepTest("h1")
  \/ StepReload("h1")
  \/ StepRollback("h1")
  \/ StepRecover("h1")
  \/ StepMark("h1")
  \/ Return("h1")

NextLimit == Tick \/ ApplyLimit

\* Apply after Apply with the same limit, with no store edit in between; each call runs to
\* its end and the operator always calls again.
SpecLimit == InitLimit /\ [][NextLimit]_vars /\ WF_vars(ApplyLimit)

\* ------------------------------------------- Apply called by concurrent handlers
\* Every goroutine calls Apply, with any request, again and again (the CLI, the handlers
\* of the web UI, SiteAdd and SiteEdit with ApplyNow, CertIssue and CertRenew): each call
\* is made outside the mutex and runs the pipeline.
NextFair ==
  \/ \E t \in Threads : CallAgain(t)
  \/ \E t \in Threads : fr[t].pc # "idle" /\ ApplyStep(t)

\* A goroutine that is inside Apply keeps running (the file writes return, nginx -t and
\* nginx -s reload end at their 10 s deadline), and a goroutine that waits in Lock() gets
\* the mutex if it is released again and again: sync.Mutex hands a mutex that a waiter
\* failed to get for 1 ms directly to the waiter at the front (starvation mode).
SpecFair ==
  /\ InitLimit /\ [][NextFair]_vars
  /\ \A t \in Threads : /\ WF_vars(fr[t].pc # "idle" /\ ApplyStep(t))
                        /\ SF_vars(\E req \in Requests : Lock(t, req))

\* ------------------------------------------------- Store.UpsertSite on its own
pipelineVars == <<proxyTargets, applyRuns, stage, live, bak, cfg, applyMu, fr, quiet, edits, calls, faults>>

\* A caller of the store calls UpsertSite with any argument.
UpsertCall(site) ==
  LET r == StoreUpsertSite(sites, nextId, site, now) IN
  /\ sites' = r.tbl
  /\ nextId' = IF r.err = "" /\ site.domain \notin DOMAIN sites THEN nextId + 1 ELSE nextId
  /\ UNCHANGED <<now, pipelineVars, ioVars>>

\* The apply pipeline records a result for a site.
ApplyResultCall(d, status) ==
  /\ d \in DOMAIN sites
  /\ sites' = UpdateApplyResult(sites, d, status, IF status = "ok" THEN "" ELSE "failed",
                                Sha256Hex(sites[d].rev), now)
  /\ UNCHANGED <<now, nextId, pipelineVars, ioVars>>

NextUpsert ==
  \/ Tick
  \/ \E site \in SiteArgs : UpsertCall(site)
  \/ \E d \in Domains, status \in {"ok", "fail"} : ApplyResultCall(d, status)

\* Store.UpsertSite called with arbitrary arguments on a store that starts empty.
SpecUpsert == Init /\ [][NextUpsert]_vars

\* =================================================== internal/certs: CertbotManager
\* The directory <live> of the ACME client, for one domain: the entry <live>/<domain>
\* and the suffixed lineage directories <live>/<domain>-0001, -0002.  Time until a
\* certificate's NotAfter is counted in hours.
CertDomain == "a.test"
Suffixes == {"0001", "0002"}
HoursPerDay == 24
RenewDays == 30
IssuedHours == 90 * HoursPerDay

\* fullchain.pem: missing, not a certificate, or a certificate with so many hours left.
NoPem == [there |-> FALSE, parsed |-> FALSE, left |-> 0]
Garbage == [there |-> TRUE, parsed |-> FALSE, left |-> 0]
Cert(left) == [there |-> TRUE, parsed |-> TRUE, left |-> left]

\* What a directory holds of fullchain.pem and privkey.pem.
NoFiles == [fullchain |-> NoPem, privkey |-> FALSE]
Lineage(left) == [fullchain |-> Cert(left), privkey |-> TRUE]

NoEntry == [kind |-> "absent"]
PlainFile == [kind |-> "file"]
Dir(files, modTime) == [kind |-> "dir", files |-> files, modTime |-> modTime]
Symlink(k) == [kind |-> "symlink", to |-> k]

\* The directory that <live>/<domain>/... resolves to, through a symlink if there is one.
LiveDir(d) ==
  IF d.base.kind = "dir" THEN d.base.files
  ELSE IF d.base.kind = "symlink" /\ d.lin[d.base.to].kind = "dir" THEN d.lin[d.base.to].files
  ELSE NoFiles

\* fileExists(<live>/<domain>/fullchain.pem) and fileExists(<live>/<domain>/privkey.pem).
fileExists(d, name) ==
  IF name = "fullchain.pem" THEN LiveDir(d).fullchain.there ELSE LiveDir(d).privkey

\* The candidates <live>/<domain>-* that hold both files.
GoodCandidates(d) ==
  {k \in Suffixes : d.lin[k].kind = "dir" /\ d.lin[k].files.fullchain.there
                                        /\ d.lin[k].files.privkey}

\* The less function of sort.Slice: the later NotAfter first, a parseable certificate
\* before one that is not (its NotAfter is the zero time), then the later ModTime.
CandidateBefore(d, i, j) ==
  LET ci == d.lin[i].files.fullchain
      cj == d.lin[j].files.fullchain
  IN  IF ci.parsed /\ cj.parsed /\ ci.left # cj.left THEN ci.left > cj.left
      ELSE IF ci.parsed /\ ~cj.parsed THEN TRUE
      ELSE IF ~ci.parsed /\ cj.parsed THEN FALSE
      ELSE d.lin[i].modTime > d.lin[j].modTime

\* good[0] after the sort; sort.Slice is not stable, so among equals it is any of them.
BestCandidates(d) ==
  {k \in GoodCandidates(d) : \A j \in GoodCandidates(d) : ~CandidateBefore(d, j, k)}

\* CertbotManager.ensureLiveAlias: nothing to do when <live>/<domain> has both files or
\* no candidate has; otherwise an existing symlink is removed, an existing directory or
\* file is renamed to <path>.bak-<timestamp>, and <live>/<domain> becomes a symlink to
\* the best candidate.  okRename and okSymlink are the outcomes of the two system calls.
ensureLiveAlias(d, target, okRename, okSymlink) ==
  IF fileExists(d, "fullchain.pem") /\ fileExists(d, "privkey.pem") THEN [disk |-> d, err |-> ""]
  ELSE IF GoodCandidates(d) = {} THEN [disk |-> d, err |-> ""]
  ELSE IF d.base.kind \in {"dir", "file"} /\ ~okRename
  THEN [disk |-> d, err |-> "cannot rename existing live dir"]
  ELSE LET cleared == [d EXCEPT !.base = NoEntry,
                                !.saved = IF d.base.kind \in {"dir", "file"} THEN TRUE ELSE @]
       IN  IF ~okSymlink THEN [disk |-> cleared, err |-> "create symlink failed"]
           ELSE [disk |-> [cleared EXCEPT !.base = Symlink(target)], err |-> ""]

\* int(time.Until(cert.NotAfter).Hours() / 24): the conversion to int drops the fraction.
DaysLeft(left) ==
  IF left >= 0 THEN left \div HoursPerDay ELSE 0 - ((0 - left) \div HoursPerDay)

\* CertbotManager.GetCertInfo after its alias repair: Exists is false when fullchain.pem
\* or privkey.pem is reported missing; a file that is no certificate is an error.
GetCertInfo(d) ==
  LET files == LiveDir(d) IN
  IF d.base.kind = "file" THEN [err |-> "read cert file", exists |-> TRUE, daysLeft |-> 0]
  ELSE IF ~files.fullchain.there \/ ~files.privkey THEN [err |-> "", exists |-> FALSE, daysLeft |-> 0]
  ELSE IF ~files.fullchain.parsed THEN [err |-> "failed to decode PEM block", exists |-> TRUE, daysLeft |-> 0]
  ELSE [err |-> "", exists |-> TRUE, daysLeft |-> DaysLeft(files.fullchain.left)]

\* An IssueCert that goes on without looking at the result of ensureLiveAlias.
CertFound_Assumed(d) == TRUE

\* IssueCert's last check: os.Stat(<live>/<domain>/fullchain.pem).
CertFound(d) == fileExists(d, "fullchain.pem")

\* The outcomes of a system call that may fail, and the targets ensureLiveAlias may pick.
Outcomes == BOOLEAN
AliasTargets(d) == IF BestCandidates(d) = {} THEN Suffixes ELSE BestCandidates(d)

\* IssueCert up to the ACME client: the domain check, MkdirAll(webroot), GetCertInfo
\* (which repairs the alias and ignores its error) and the refusal of a certificate that
\* is valid for more than 30 days.
IssueCert(domain) ==
  /\ call.pc = "idle"
  /\ \E okMkdir \in Outcomes, okRename \in Outcomes, okSymlink \in Outcomes, target \in AliasTargets(disk) :
       LET a == ensureLiveAlias(disk, target, okRename, okSymlink)
           info == GetCertInfo(a.disk)
           c == [op |-> "IssueCert", pc |-> "done", domain |-> domain, err |-> "", ran |-> FALSE]
       IN  IF domain = "" THEN call' = [c EXCEPT !.err = "domain is required"] /\ disk' = disk
           ELSE IF ~okMkdir THEN call' = [c EXCEPT !.err = "create webroot"] /\ disk' = disk
           ELSE /\ disk' = a.disk
                /\ call' = IF info.err = "" /\ info.exists /\ info.daysLeft > RenewDays
                           THEN [c EXCEPT !.err = "certificate already exists and is valid"]
                           ELSE [c EXCEPT !.pc = "certbot"]
  /\ UNCHANGED <<now, sites, nextId, pipelineVars>>

\* GetCertInfo(domain) called on its own (the certificate list of the CLI and the UI):
\* the alias repair, its error ignored, then the information read through <live>/<domain>.
CertInfo ==
  /\ call.pc = "idle"
  /\ \E okRename \in Outcomes, okSymlink \in Outcomes, target \in AliasTargets(disk) :
       LET a == ensureLiveAlias(disk, target, okRename, okSymlink)
           info == GetCertInfo(a.disk)
       IN  /\ disk' = a.disk
           /\ call' = [op |-> "GetCertInfo", pc |-> "done", domain |-> CertDomain,
                       err |-> info.err, ran |-> FALSE, info |-> info]
  /\ UNCHANGED <<now, sites, nextId, pipelineVars>>

\* exec certbot certonly --webroot -d <domain> --cert-name <domain> --keep-until-expiring:
\* it fails, or it exits 0 having written nothing, a lineage in <live>/<domain> or a
\* lineage in a suffixed directory.
Certbot ==
  /\ call.pc = "certbot"
  /\ \E out \in {"fail", "nothing", "base"} \cup Suffixes :
       /\ out = "base" => disk.base.kind \in {"absent", "dir"}
       /\ disk' = IF out = "base" THEN [disk EXCEPT !.base = Dir(Lineage(IssuedHours), 2)]
                  ELSE IF out \in Suffixes THEN [disk EXCEPT !.lin[out] = Dir(Lineage(IssuedHours), 2)]
                  ELSE disk
       /\ call' = IF out = "fail" THEN [call EXCEPT !.pc = "done", !.ran = TRUE, !.err = "certbot failed"]
                  ELSE [call EXCEPT !.pc = "alias", !.ran = TRUE]
  /\ UNCHANGED <<now, sites, nextId, pipelineVars>>

\* IssueCert after the ACME client: ensureLiveAlias, then the check that
\* <live>/<domain>/fullchain.pem is there.
IssueAlias ==
  /\ call.pc = "alias"
  /\ \E okRename \in Outcomes, okSymlink \in Outcomes, target \in AliasTargets(disk) :
       LET a == ensureLiveAlias(disk, target, okRename, okSymlink) IN
       /\ disk' = a.disk
       /\ call' = [call EXCEPT !.pc = "done",
                     !.err = IF a.err # "" THEN "cert issued but failed to ensure live alias"
                             ELSE IF ~CertFound(a.disk) THEN "cert file not found after issuance"
                             ELSE ""]
  /\ UNCHANGED <<now, sites, nextId, pipelineVars>>

\* The caller has the result; the next call can start.
CallReturn ==
  /\ call.pc = "done"
  /\ call' = NoCall
  /\ UNCHANGED <<disk, now, sites, nextId, pipelineVars>>

\* The states of <live> a run starts in: any entry at <live>/<domain>, any lineage
\* directories; a symlink at <live>/<domain> is one ensureLiveAlias made, to a lineage
\* with both files, or one whose lineage has been deleted since.
BaseCerts == {NoPem, Garbage} \cup {Cert(h) : h \in {0 - 12, 30 * HoursPerDay, 30 * HoursPerDay + 12, 31 * HoursPerDay}}
LineageCerts == {NoPem, Garbage} \cup {Cert(h) : h \in {30 * HoursPerDay, 31 * HoursPerDay}}
CertDisks ==
  {d \in [base : {NoEntry, PlainFile} \cup {Symlink(k) : k \in Suffixes}
                 \cup {Dir([fullchain |-> c, privkey |-> k], 1) : c \in BaseCerts, k \in BOOLEAN},
          lin : [Suffixes -> {NoEntry} \cup {Dir([fullchain |-> c, privkey |-> k], m) :
                                               c \in LineageCerts, k \in BOOLEAN, m \in 1..2}],
          saved : {FALSE}] :
     d.base.kind = "symlink" =>
       (d.lin[d.base.to].kind = "dir" => d.base.to \in GoodCandidates(d))}

InitCert ==
  /\ now = 1 /\ sites = <<>> /\ nextId = 1 /\ proxyTargets = {} /\ applyRuns = {}
  /\ stage = [x \in Domains |-> Absent] /\ live = [x \in Domains |-> Absent]
  /\ bak = [x \in Domains |-> Absent] /\ cfg = applyDefaults(TRUE)
  /\ applyMu = Unlocked /\ fr = [t \in Threads |-> IdleFrame] /\ quiet = "none"
  /\ edits = 0 /\ calls = 0 /\ faults = 0
  /\ disk \in CertDisks
  /\ call = NoCall

NextCert ==
  \/ \E domain \in {CertDomain, ""} : IssueCert(domain)
  \/ CertInfo
  \/ Certbot
  \/ IssueAlias
  \/ CallReturn

\* CertbotManager.IssueCert called again and again on any state of <live>.
SpecCert == InitCert /\ [][NextCert]_vars

\* ------------------------------------------- App.CertIssue and App.CertRenew
\* The ApplyRequest the certificate handlers pass to Apply: CertIssue re-applies the
\* domain, CertRenew applies every site.
CertApplyReq(c) ==
  [domain |-> IF c.op = "CertIssue" THEN c.domain ELSE "",
   all |-> c.op = "CertRenew", dry |-> FALSE, limit |-> 0]

\* App.CertIssue(ctx, domain, applyAfter=true): m.IssueCert fails and the error is
\* returned, or it succeeds and a.Apply(ApplyRequest{Domain: domain}) is called.
CertIssue(t, d) ==
  /\ fr[t].pc = "idle" /\ call = NoCall
  /\ calls < MaxCalls
  /\ calls' = calls + 1
  /\ \E ok \in BOOLEAN :
       IF ok
       THEN /\ call' = [op |-> "CertIssue", pc |-> "apply", domain |-> d, err |-> ""]
            /\ fr' = [fr EXCEPT ![t] = [IdleFrame EXCEPT !.pc = "lock"]]
       ELSE /\ call' = [op |-> "CertIssue", pc |-> "done", domain |-> d, err |-> "certbot certonly failed"]
            /\ fr' = fr
  /\ UNCHANGED <<now, sites, nextId, proxyTargets, applyRuns, stage, live, bak, cfg, applyMu, quiet, edits, faults, disk>>

\* App.CertRenew(ctx, domain, all, applyAfter=true): m.RenewAll or m.RenewCert fails and
\* the error is returned, or it succeeds and a.Apply(ApplyRequest{All: true}) is called.
CertRenew(t) ==
  /\ fr[t].pc = "idle" /\ call = NoCall
  /\ calls < MaxCalls
  /\ calls' = calls + 1
  /\ \E ok \in BOOLEAN :
       IF ok
       THEN /\ call' = [op |-> "CertRenew", pc |-> "apply", domain |-> "", err |-> ""]
            /\ fr' = [fr EXCEPT ![t] = [IdleFrame EXCEPT !.pc = "lock"]]
       ELSE /\ call' = [op |-> "CertRenew", pc |-> "done", domain |-> "", err |-> "certbot renew failed"]
            /\ fr' = fr
  /\ UNCHANGED <<now, sites, nextId, proxyTargets, applyRuns, stage, live, bak, cfg, applyMu, quiet, edits, faults, disk>>

\* `_, err := a.Apply(...); return err`: Apply has returned and the handler returns.
CertApplyReturn(t) ==
  /\ call.pc = "apply" /\ fr[t].pc = "idle"
  /\ call' = NoCall
  /\ UNCHANGED <<disk, now, sites, nextId, pipelineVars>>

\* The sequential client of SpecSeq, which also issues and renews certificates: Apply is
\* entered from the CLI with any request, or from a certificate handler with its own.
NextCertApply ==
  \/ Tick
  \/ call = NoCall /\ SeqEdit
  \/ /\ fr["h1"].pc = "idle" => call = NoCall
     /\ ApplyStep("h1")
     /\ (fr["h1"].pc = "lock" /\ call.pc = "apply") => fr'["h1"].req = CertApplyReq(call)
  \/ \E d \in Domains : CertIssue("h1", d)
  \/ CertRenew("h1")
  \/ CertApplyReturn("h1")
  \/ CallReturn

SpecCertApply == InitSeq /\ [][NextCertApply]_vars

\* ============================= internal/util: WriteFileAtomic; internal/fpm: EnsurePool
\* One directory with the file at `path` (for EnsurePool the pool file
\* <pools_dir>/ngm-<key>.conf) and the temporary file .tmp-* next to it.  A file's
\* contents are a non-empty sequence of bytes; Absent is no file.  `loaded` is the pool
\* file as the php-fpm service read it at its last successful reload.
FileBytes == {<<1>>, <<1, 2>>, <<2, 1>>}
NoTmp == [there |-> FALSE, bytes |-> <<>>]
Prefixes(data) == {SubSeq(data, 1, n) : n \in 0..(Len(data) - 1)}

\* A WriteFileAtomic that writes the bytes to the path itself.
WriteBytes_InPlace(d, bytes) == [d EXCEPT !.path = bytes]

\* tmp.Write(data): the bytes go to the temporary file.
WriteBytes(d, bytes) == [d EXCEPT !.tmp = [there |-> TRUE, bytes |-> bytes]]

\* The call record of WriteFileAtomic and EnsurePool: old is the file found at the start
\* of the call (history), wrote and reloads count what the call has invoked.
NewCall(op, old, data) ==
  [op |-> op, pc |-> "create", old |-> old, data |-> data, err |-> "",
   changed |-> FALSE, wrote |-> FALSE, reloads |-> 0]

\* WriteFileAtomic returns: to its caller, or inside EnsurePool to the code after
\* writePoolFileAtomic.
AtomicReturn(c, err) ==
  IF c.op = "WriteFileAtomic" THEN [c EXCEPT !.pc = "done", !.err = err]
  ELSE IF err # "" THEN [c EXCEPT !.pc = "done", !.err = "write pool"]
  ELSE [c EXCEPT !.pc = "reload"]

\* WriteFileAtomic(path, data, perm) is called.
WriteFileAtomic(data) ==
  /\ call.pc = "idle"
  /\ call' = NewCall("WriteFileAtomic", disk.path, data)
  /\ UNCHANGED <<disk, now, sites, nextId, pipelineVars>>

\* MkdirAll(dir) and os.CreateTemp(dir, ".tmp-*"): on failure there is no temporary file
\* and nothing is deferred.
CreateTemp ==
  /\ call.pc = "create"
  /\ \E ok \in Outcomes :
       IF ok THEN /\ disk' = [disk EXCEPT !.tmp = [there |-> TRUE, bytes |-> <<>>]]
                  /\ call' = [call EXCEPT !.pc = "chmod", !.wrote = TRUE]
       ELSE /\ disk' = disk
            /\ call' = AtomicReturn([call EXCEPT !.wrote = TRUE], "create temp")
  /\ UNCHANGED <<now, sites, nextId, pipelineVars>>

\* tmp.Chmod, tmp.Sync and tmp.Close: on failure the function returns through its defer.
TempCall(at, next, msg) ==
  /\ call.pc = at
  /\ \E ok \in Outcomes :
       call' = IF ok THEN [call EXCEPT !.pc = next] ELSE [call EXCEPT !.pc = "cleanup", !.err = msg]
  /\ UNCHANGED <<disk, now, sites, nextId, pipelineVars>>

Chmod == TempCall("chmod", "write", "chmod temp")
Sync == TempCall("sync", "close", "sync temp")
Close == TempCall("close", "rename", "close temp")

\* tmp.Write(data): all the bytes, or an error after some of them.
Write ==
  /\ call.pc = "write"
  /\ \E bytes \in {call.data} \cup Prefixes(call.data) :
       /\ disk' = WriteBytes(disk, bytes)
       /\ call' = IF bytes = call.data THEN [call EXCEPT !.pc = "sync"]
                  ELSE [call EXCEPT !.pc = "cleanup", !.err = "write temp"]
  /\ UNCHANGED <<now, sites, nextId, pipelineVars>>

\* os.Rename(tmpName, path): the temporary file becomes the file at path, in one step.
Rename ==
  /\ call.pc = "rename"
  /\ \E ok \in Outcomes :
       IF ok THEN /\ disk' = [disk EXCEPT !.path = disk.tmp.bytes, !.tmp = NoTmp]
                  /\ call' = AtomicReturn(call, "")
       ELSE /\ disk' = disk
            /\ call' = [call EXCEPT !.pc = "cleanup", !.err = "rename"]
  /\ UNCHANGED <<now, sites, nextId, pipelineVars>>

\* The deferred function when ok is false: tmp.Close() and os.Remove(tmpName).
Cleanup ==
  /\ call.pc = "cleanup"
  /\ disk' = [disk EXCEPT !.tmp = NoTmp]
  /\ call' = AtomicReturn(call, call.err)
  /\ UNCHANGED <<now, sites, nextId, pipelineVars>>

\* PoolManager.Render: the pool template executed on the data.
RenderPool(td) == <<td, 3 - td>>
PoolDatas == 1..2

\* A pool manager that rewrites the pool file whatever it holds.
PoolUnchanged_Never(old, rendered) == FALSE

\* `if old, err := os.ReadFile(outPath); err == nil { if bytes.Equal(old, rendered) {`.
PoolUnchanged(old, rendered) == old # Absent /\ old = rendered

\* EnsurePool up to writePoolFileAtomic: the argument checks, Render, and the comparison
\* with the pool file that is there.
EnsurePool(domain, td) ==
  /\ call.pc = "idle"
  /\ \E okRender \in Outcomes :
       LET c == NewCall("EnsurePool", disk.path, RenderPool(td)) IN
       call' = IF domain = "" THEN [c EXCEPT !.pc = "done", !.err = "domain required"]
               ELSE IF ~okRender THEN [c EXCEPT !.pc = "done", !.err = "parse pool template"]
               ELSE IF PoolUnchanged(disk.path, RenderPool(td)) THEN [c EXCEPT !.pc = "done"]
               ELSE c
  /\ UNCHANGED <<disk, now, sites, nextId, pipelineVars>>

\* ReloadService(service): whatever it returns, EnsurePool reports changed = true.  A
\* reload that succeeds makes php-fpm read the pool file that is there.
PoolReload ==
  /\ call.pc = "reload"
  /\ \E ok \in Outcomes :
       /\ call' = [call EXCEPT !.pc = "done", !.changed = TRUE, !.reloads = call.reloads + 1,
                               !.err = IF ok THEN "" ELSE "systemctl reload failed"]
       /\ disk' = IF ok THEN [disk EXCEPT !.loaded = disk.path] ELSE disk
  /\ UNCHANGED <<now, sites, nextId, pipelineVars>>

InitFiles ==
  /\ now = 1 /\ sites = <<>> /\ nextId = 1 /\ proxyTargets = {} /\ applyRuns = {}
  /\ stage = [x \in Domains |-> Absent] /\ live = [x \in Domains |-> Absent]
  /\ bak = [x \in Domains |-> Absent] /\ cfg = applyDefaults(TRUE)
  /\ applyMu = Unlocked /\ fr = [t \in Threads |-> IdleFrame] /\ quiet = "none"
  /\ edits = 0 /\ calls = 0 /\ faults = 0
  /\ disk \in {[path |-> p, tmp |-> NoTmp, loaded |-> p] : p \in {Absent} \cup FileBytes}
  /\ call = NoCall

NextFiles ==
  \/ \E data \in FileBytes : WriteFileAtomic(data)
  \/ \E domain \in {CertDomain, ""}, td \in PoolDatas : EnsurePool(domain, td)
  \/ CreateTemp
  \/ Chmod
  \/ Write
  \/ Sync
  \/ Close
  \/ Rename
  \/ Cleanup
  \/ PoolReload
  \/ CallReturn

\* WriteFileAtomic and EnsurePool called again and again on one directory.
SpecFiles == InitFiles /\ [][NextFiles]_vars

\* The pool file of one php site, written by nobody but EnsurePool: App.buildTemplateData
\* calls EnsurePool at every apply of the site, with the pool data of the site's settings.
NextPool ==
  \/ \E td \in PoolDatas : EnsurePool(CertDomain, td)
  \/ CreateTemp
  \/ Chmod
  \/ Write
  \/ Sync
  \/ Close
  \/ Rename
  \/ Cleanup
  \/ PoolReload
  \/ CallReturn

SpecPool == InitFiles /\ [][NextPool]_vars

\* ================================ internal/fpm, internal/nginx: per-domain names
\* A string is a sequence of characters; site domains are at most MaxLabel long.
MaxLabel == 3

\* strings.Trim(s, cutset), strings.TrimSpace(s): the leading and trailing characters of
\* the cutset removed.
Trim(s, cutset) ==
  LET keep == {i \in 1..Len(s) : s[i] \notin cutset} IN
  IF keep = {} THEN <<>>
  ELSE SubSeq(s, CHOOSE i \in keep : \A j \in keep : i <= j,
                 CHOOSE i \in keep : \A j \in keep : j <= i)

\* nginx.MakeUpstreamKey: ToLower, "." and "-" replaced by "_", every run of characters
\* outside [a-zA-Z0-9_] replaced by one "_", "_" trimmed at both ends, "site" when
\* nothing is left.
MakeUpstreamKey(domain) ==
  LET lower(c) == IF c = "A" THEN "a" ELSE IF c = "B" THEN "b" ELSE c
      repl(c)  == IF lower(c) \in {".", "-"} THEN "_" ELSE lower(c)
      ident(c) == c \in {"a", "b", "A", "B", "0", "1", "_"}
      s1       == [i \in 1..Len(domain) |-> repl(domain[i])]
      \* the positions kept by nonIdent.ReplaceAllString: identifier characters, and the
      \* first character of each run of others
      kept     == {i \in 1..Len(s1) : ident(s1[i]) \/ i = 1 \/ ident(s1[i - 1])}
      nth(k)   == CHOOSE i \in kept : Cardinality({j \in kept : j < i}) = k - 1
      s2       == [k \in 1..Cardinality(kept) |-> IF ident(s1[nth(k)]) THEN s1[nth(k)] ELSE "_"]
      s3       == Trim(s2, {"_"})
  IN  IF s3 = <<>> THEN <<"s", "i", "t", "e">> ELSE s3

\* fpm.makeKey: the same steps on strings.TrimSpace(s).
makeKey(s) == MakeUpstreamKey(Trim(s, {" "}))

\* fpm.SocketPath: filepath.Join(sockDir, "ngm-<key>-<phpVersion>.sock").
SocketPath(sockDir, domain, phpVersion) == <<sockDir, "ngm-", makeKey(domain), "-", phpVersion, ".sock">>

\* fpm.PoolFilePath: filepath.Join(poolsDir, "ngm-<key>.conf").
PoolFilePath(poolsDir, domain) == <<poolsDir, "ngm-", makeKey(domain), ".conf">>

\* A host with two php sites of the same PHP version, whose domains are distinct host
\* names (letters at both ends; letters, ".", "-" or "_" inside) as SiteAdd stores them,
\* lowercased and trimmed.  No pool file has been written yet.
InitKeys ==
  /\ now = 1 /\ sites = <<>> /\ nextId = 1 /\ proxyTargets = {} /\ applyRuns = {}
  /\ stage = [x \in Domains |-> Absent] /\ live = [x \in Domains |-> Absent]
  /\ bak = [x \in Domains |-> Absent] /\ cfg = applyDefaults(TRUE)
  /\ applyMu = Unlocked /\ fr = [t \in Threads |-> IdleFrame] /\ quiet = "none"
  /\ edits = 0 /\ calls = 0 /\ faults = 0
  /\ \E d1, d2 \in {d \in UNION {[1..n -> {"a", "b", ".", "-", "_"}] : n \in 1..MaxLabel} :
                      d[1] \in {"a", "b"} /\ d[Len(d)] \in {"a", "b"}} :
       /\ d1 # d2
       /\ disk = [domains |-> {d1, d2}, pools |-> <<>>, applied |-> {}]
  /\ call = NoCall

\* The apply of the php site `domain`: buildTemplateData computes the socket, EnsurePool
\* writes the pool file at PoolFilePath, and the vhost is rendered with the upstream key.
ApplyPhpSite(domain) ==
  LET path == PoolFilePath("/etc/php/8.3/fpm/pool.d", domain)
      pool == [owner |-> domain, listen |-> SocketPath("/run/php", domain, "8.3"),
               upstream |-> MakeUpstreamKey(domain)]
  IN
  /\ domain \in disk.domains
  /\ disk' = [disk EXCEPT !.applied = @ \cup {domain},
                          !.pools = [x \in (DOMAIN @) \cup {path} |-> IF x = path THEN pool ELSE @[x]]]
  /\ UNCHANGED <<call, now, sites, nextId, pipelineVars>>

\* The two sites are applied, in any order and any number of times.
SpecKeys == InitKeys /\ [][\E domain \in disk.domains : ApplyPhpSite(domain)]_vars

\* ======================================================== internal/util/execx: Run
\* One child process under a context with a deadline.  disk holds the process as the
\* operating system sees it, call the state of Run.
Programs == {"nginx", "certbot", "missing"}
Timeouts == {"1s", "15s"}
ExitCodes == 0..2
Streams == {"", "text"}
NoProc == [state |-> "none", code |-> 0, stdout |-> "", stderr |-> ""]

\* `ctx.Err() == context.DeadlineExceeded`, read when cmd.Run() has returned.
DeadlineExceeded(c) == c.ctxErr

\* Run(timeout, name, args...) up to cmd.Run()'s start of the process: a program that
\* cannot be started makes cmd.Run() return an *exec.Error at once.
Run(timeout, name) ==
  /\ call.pc = "idle"
  /\ LET c == [op |-> "Run", pc |-> "wait", timeout |-> timeout, name |-> name,
               ctxErr |-> FALSE, runErr |-> "", res |-> NoProc, err |-> ""]
     IN  IF name = "missing"
         THEN call' = [c EXCEPT !.pc = "check", !.runErr = "exec.Error"] /\ disk' = NoProc
         ELSE call' = c /\ disk' = [NoProc EXCEPT !.state = "running"]
  /\ UNCHANGED <<now, sites, nextId, pipelineVars>>

\* The program exits by itself, having written its streams; cmd.Run() returns nil for
\* code 0 and an *exec.ExitError otherwise.
ProgramExits ==
  /\ call.pc = "wait"
  /\ \E code \in ExitCodes, out \in Streams, errOut \in Streams :
       /\ disk' = [state |-> "exited", code |-> code, stdout |-> out, stderr |-> errOut]
       /\ call' = [call EXCEPT !.pc = "check",
                     !.runErr = IF code = 0 THEN "" ELSE "exec.ExitError"]
  /\ UNCHANGED <<now, sites, nextId, pipelineVars>>

\* The deadline of context.WithTimeout passes: ctx.Err() becomes DeadlineExceeded, and a
\* process that is still running is killed (its ExitError has exit code -1).
DeadlinePasses ==
  /\ call.pc \in {"wait", "check"}
  /\ ~call.ctxErr
  /\ IF call.pc = "wait"
     THEN /\ \E out \in Streams, errOut \in Streams :
               disk' = [state |-> "killed", code |-> 0 - 1, stdout |-> out, stderr |-> errOut]
          /\ call' = [call EXCEPT !.pc = "check", !.ctxErr = TRUE, !.runErr = "exec.ExitError"]
     ELSE /\ disk' = disk
          /\ call' = [call EXCEPT !.ctxErr = TRUE]
  /\ UNCHANGED <<now, sites, nextId, pipelineVars>>

\* Run after cmd.Run(): the result is built from the buffers and classified.
RunReturns ==
  /\ call.pc = "check"
  /\ LET res == [disk EXCEPT !.code = 0] IN
     call' = IF DeadlineExceeded(call)
             THEN [call EXCEPT !.pc = "done", !.res = [res EXCEPT !.code = 0 - 1], !.err = "command timeout"]
             ELSE IF call.runErr = ""
             THEN [call EXCEPT !.pc = "done", !.res = res, !.err = ""]
             ELSE IF call.runErr = "exec.ExitError"
             THEN [call EXCEPT !.pc = "done", !.res = [res EXCEPT !.code = disk.code], !.err = "command failed"]
             ELSE [call EXCEPT !.pc = "done", !.res = res, !.err = "command error"]
  /\ UNCHANGED <<disk, now, sites, nextId, pipelineVars>>

InitRun ==
  /\ now = 1 /\ sites = <<>> /\ nextId = 1 /\ proxyTargets = {} /\ applyRuns = {}
  /\ stage = [x \in Domains |-> Absent] /\ live = [x \in Domains |-> Absent]
  /\ bak = [x \in Domains |-> Absent] /\ cfg = applyDefaults(TRUE)
  /\ applyMu = Unlocked /\ fr = [t \in Threads |-> IdleFrame] /\ quiet = "none"
  /\ edits = 0 /\ calls = 0 /\ faults = 0
  /\ disk = NoProc
  /\ call = NoCall

NextRun ==
  \/ \E timeout \in Timeouts, name \in Programs : Run(timeout, name)
  \/ ProgramExits
  \/ DeadlinePasses
  \/ RunReturns
  \/ CallReturn

\* Run called again and again, on programs that exit, overrun the deadline or cannot be
\* started.
SpecRun == InitRun /\ [][NextRun]_vars

\* ================================================================= claims
\* A goroutine is between the first and the last pipeline step of its Apply call.
InPipeline(f) == f.pc \notin {"idle", "lock"}

\* C1.  Apply calls on one App are mutually exclusive: no two goroutines are inside the
\* pipeline at once, a goroutine inside the pipeline (so every TestConfig, Reload and
\* UpdateApplyResult step) holds applyMu, and every step that changes a live or a backup
\* vhost file is a step of the goroutine holding applyMu.
C1_MutualExclusion ==
  /\ \A t, u \in Threads : (InPipeline(fr[t]) /\ InPipeline(fr[u])) => t = u
  /\ \A t \in Threads : InPipeline(fr[t]) => applyMu = t

C1_WritesUnderMutex ==
  (live' # live \/ bak' # bak) =>
     \E t \in Threads : /\ applyMu = t /\ applyMu' = t
                        /\ InPipeline(fr[t]) /\ fr'[t] # fr[t]
                        /\ \A u \in Threads \ {t} : fr'[u] = fr[u]

C1_ApplyIsExclusive == [](C1_MutualExclusion) /\ [][C1_WritesUnderMutex]_vars

\* C1 witness: one Apply is about to run TestConfig while another call waits in Lock().
C1_Contended ==
  \E t, u \in Threads : t # u /\ fr[t].pc = "test" /\ fr[u].pc = "lock" /\ applyMu = t

\* A batch Apply that is returning the TestConfig or Reload error.
FailedBatch(f) == f.pc = "ret" /\ ~Single(f) /\ f.err # ""

\* C2.  When a batch Apply returns after failing at TestConfig or at Reload, every domain
\* of its changed set has the live file it had when the call began, or no live file, and
\* its stored last_apply_status is fail.
C2_RollbackRestoresPrevious ==
  \A t \in Threads :
    FailedBatch(fr[t]) =>
      \A k \in 1..Len(fr[t].changed) :
        LET d == fr[t].changed[k] IN
        /\ live[d] \in {fr[t].liveAtStart[d], Absent}
        /\ d \in DOMAIN sites => sites[d].last_apply_status = "fail"

\* C3.  Publish(d) takes the backup before it overwrites: whenever Publish is about to
\* write the live file of d and a live file exists, <backup>/d.conf.bak already holds
\* those live bytes, and the overwriting step leaves the backup alone; when the staged
\* bytes equal the live bytes, Publish returns changed=false and writes neither file.
C3_BackupHoldsLive ==
  \A t \in Threads :
    (fr[t].pc = "pub_live" /\ live[fr[t].d] # Absent) => bak[fr[t].d] = live[fr[t].d]

C3_PublishStep ==
  \A t \in Threads :
    /\ (fr[t].pc = "pub_live" /\ fr'[t] # fr[t]) =>
         /\ bak' = bak
         /\ \/ live'[fr[t].d] = fr[t].data
            \/ live' = live /\ fr'[t].upd.status = "fail" /\ ~fr'[t].changedNow
    /\ (fr[t].pc = "publish" /\ fr'[t] # fr[t] /\ stage[fr[t].d] # Absent
          /\ stage[fr[t].d] = live[fr[t].d]) =>
         /\ live' = live /\ bak' = bak
         /\ fr'[t].pc = "upd" /\ fr'[t].changedNow = FALSE /\ fr'[t].upd.status = "ok"

C3_BackupBeforeChange == [](C3_BackupHoldsLive) /\ [][C3_PublishStep]_vars

\* C3 witness: Publish has backed up an existing live file and is about to replace it by
\* different staged bytes.
C3_Overwriting ==
  \E t \in Threads :
    /\ fr[t].pc = "pub_live" /\ live[fr[t].d] # Absent
    /\ fr[t].data # live[fr[t].d] /\ bak[fr[t].d] = live[fr[t].d]

\* An Apply call that follows a completed Apply with no store edit since (prev is the kind
\* of that earlier call) and sees no store edit while it runs.
SecondApply(f) == InPipeline(f) /\ f.prev # "none" /\ ~f.edited

\* What a second Apply on an unchanged desired state must look like: it never reaches
\* TestConfig or Reload, and when it returns, no result row has changed=true and the
\* stored status of every site is ok.
NoopApply(f) ==
  /\ f.pc \notin {"test", "reload", "rollback", "recover", "mark"}
  /\ f.pc = "ret" =>
       /\ \A k \in 1..Len(f.res) : ~f.res[k].changed
       /\ f.resChanged = <<>> /\ ~f.reloaded
       /\ \A d \in DOMAIN sites : sites[d].last_apply_status = "ok"

\* A batch request without dry_run and without limit.
FullBatch(req) == req.domain = "" /\ ~req.dry /\ req.limit = 0

NoWider(f) ==
  \/ f.prev = "cleanAll"
  \/ f.prev = "cleanPending" /\ ~Single(f) /\ ~f.req.all

\* No write of the call under the staging or live directory has failed.
NoWriteFailed(f) ==
  \A k \in 1..Len(f.res) : f.res[k].error \notin {RenderErr, PublishErr}

RecordsOkForEnabled(t) ==
  /\ fr[t].pc = "upd" /\ fr'[t] # fr[t]
  /\ fr[t].upd.action = "apply" /\ fr[t].upd.status = "ok"

\* C5.  When Apply records ok for an enabled site, the row's last_render_hash is the
\* SHA-256 of the bytes of the site's live vhost file and last_applied_at >= updated_at.
C5_RecordedOk ==
  \A t \in Threads :
    RecordsOkForEnabled(t) =>
      LET d == fr[t].d IN
      /\ d \in DOMAIN sites'
      /\ live'[d] # Absent
      /\ sites'[d].last_apply_status = "ok"
      /\ sites'[d].last_render_hash = Sha256Hex(live'[d])
      /\ sites'[d].last_applied_at >= sites'[d].updated_at

C5_OkHashIsLiveHash == [][C5_RecordedOk]_vars

\* C5 witness: a single-site Apply returns ok/changed=true for an enabled site whose row
\* carries the hash of the live file.
C5_OkRecorded ==
  \E t \in Threads :
    /\ fr[t].pc = "ret" /\ Single(fr[t]) /\ Len(fr[t].updLog) = 1
    /\ fr[t].updLog[1].status = "ok"
    /\ LET d == fr[t].req.domain IN
       /\ sites[d].enabled /\ sites[d].last_apply_status = "ok"
       /\ live[d] # Absent /\ sites[d].last_render_hash = Sha256Hex(live[d])
       /\ fr[t].resChanged = <<d>>

\* The steps of a batch Apply that come after its loop over the sites.
AfterLoop == {"test", "reload", "rollback", "recover", "mark"}

\* What the loop left for the sites it changed: a published site's live file is its
\* staged file, with the recorded hash; a removed site has no live file.
ChangedPublished(f) ==
  \A k \in 1..Len(f.changed) :
    LET d == f.changed[k] IN
    IF f.changedHashes[d] = NoHash THEN live[d] = Absent
    ELSE live[d] = stage[d] /\ f.changedHashes[d] = Sha256Hex(live[d])

\* The loop of a batch is over: no site is left, or the limit is reached.
LoopDone(f) == f.i > Len(f.sites) \/ (f.req.limit > 0 /\ f.applied >= f.req.limit)

C6_Order ==
  \A t \in Threads :
    LET f == fr[t] IN
    ~Single(f) =>
      /\ f.pc \in {"test", "reload"} => (LoopDone(f) /\ ChangedPublished(f))
      /\ f.pc \in {"recover", "mark"} =>
           \A k \in 1..Len(f.changed) : live[f.changed[k]] = bak[f.changed[k]]

C6_Steps ==
  \A t \in Threads :
    LET f == fr[t] IN
    (~Single(f) /\ fr'[t] # f) =>
      /\ f.pc \in AfterLoop =>
           /\ fr'[t].pc \in AfterLoop \cup {"ret"}
           /\ stage' = stage /\ bak' = bak
           /\ live' # live => f.pc = "rollback"
      /\ (fr'[t].pc = "test" /\ f.pc # "test") => f.pc = "loop"
      /\ (fr'[t].pc = "reload" /\ f.pc # "reload") => f.pc = "test"
      /\ (fr'[t].pc = "recover" /\ f.pc # "recover") =>
           (f.pc = "rollback" /\ f.rb = Len(f.changed))

\* C6.  In a batch Apply every staged write and publish is done when TestConfig is
\* invoked (the loop is over, each changed site's live file is its staged file, and no
\* later step writes a staged file or publishes), Reload is entered only from a
\* TestConfig that passed, and the recovery Reload is entered only when rollback has
\* restored every changed domain from its backup.
C6_BatchOrdering == [](C6_Order) /\ [][C6_Steps]_vars

\* C6 witness: a batch that changed two sites has rolled both back and is about to run
\* the recovery Reload.
C6_RolledBackTwo ==
  \E t \in Threads :
    /\ fr[t].pc = "recover" /\ ~Single(fr[t]) /\ Len(fr[t].changed) = 2
    /\ fr[t].err # ""

\* The domains this call has changed on disk so far.
ChangedSet(f) == {f.changed[k] : k \in 1..Len(f.changed)}

\* C7.  Apply stores ok for a site it changed only after the final decision: whenever
\* this call has written ok for a domain of its changed set, the call has passed
\* TestConfig and Reload (it is returning without error).
C7_OkOnlyAfterDecision ==
  \A t \in Threads :
    LET f == fr[t] IN
    \A k \in 1..Len(f.updLog) :
      (f.updLog[k].status = "ok" /\ f.updLog[k].domain \in ChangedSet(f)) =>
         (f.pc = "ret" /\ f.err = "")

\* The UpdateApplyResult calls this Apply call has made for domain d.
UpdateCalls(f, d) == Cardinality({k \in 1..Len(f.updLog) : f.updLog[k].domain = d})

\* C8.  When an Apply call returns, UpdateApplyResult has been called exactly once for
\* every site of the store it actioned (a result row that is neither skipped nor
\* dry-run).
C8_OneUpdatePerActionedSite ==
  \A t \in Threads :
    LET f == fr[t] IN
    f.pc = "ret" =>
      \A k \in 1..Len(f.res) :
        (f.res[k].status \notin {"skipped", "dry-run"} /\ f.res[k].domain \in DOMAIN sites) =>
           UpdateCalls(f, f.res[k].domain) = 1

\* An Apply call that is returning after its TestConfig and Reload ran and succeeded.
ReloadedOk(f) == f.pc = "ret" /\ f.err = "" /\ f.resChanged # <<>>

C10_DisableStep ==
  \A d \in Domains :
    SiteDisable(d) =>
      /\ DOMAIN sites' = DOMAIN sites
      /\ ~sites'[d].enabled
      /\ sites'[d].deleted_at # NullTime
      /\ sites'[d].id = sites[d].id
      /\ proxyTargets' = proxyTargets
      /\ applyRuns' = applyRuns
      /\ \A x \in DOMAIN sites \ {d} : sites'[x] = sites[x]

C10_SoftDeleteFrame == [][C10_DisableStep]_vars

\* C10 witness: a site with a proxy-target row has just been disabled next to another
\* site's row.
C10_Disabled ==
  \E d \in DOMAIN sites :
    /\ ~sites[d].enabled /\ sites[d].deleted_at = now /\ sites[d].updated_at = now
    /\ \E r \in proxyTargets : r.site_id = sites[d].id
    /\ DOMAIN sites # {d}
    /\ quiet = "none" /\ edits = MaxEdits

\* C11.  In every store state a site's deleted_at is non-null exactly when the site is
\* disabled, whichever handler changed enabled.
C11_DeletedAtIffDisabled ==
  \A d \in DOMAIN sites : (sites[d].deleted_at # NullTime) <=> ~sites[d].enabled

\* C12.  A site row leaves the store only while the site is disabled: a hard delete
\* requested for an enabled site removes nothing.
C12_RemovedOnlyDisabled ==
  \A d \in DOMAIN sites : d \notin DOMAIN sites' => ~sites[d].enabled

C12_RefusedForEnabled ==
  \A d \in DOMAIN sites, failAt \in FailPoints :
    (sites[d].enabled /\ SiteDelete(d, failAt)) =>
       (sites' = sites /\ proxyTargets' = proxyTargets /\ applyRuns' = applyRuns)

C13_DeleteStep ==
  \A d \in Domains, failAt \in FailPoints :
    LET r == DeleteSiteByDomain(Tables, d, failAt) IN
    (SiteDelete(d, failAt) /\ (d \in DOMAIN sites => SiteDeleteAllowed(sites[d]))) =>
      IF r.err
      THEN sites' = sites /\ proxyTargets' = proxyTargets /\ applyRuns' = applyRuns
      ELSE /\ d \in DOMAIN sites /\ failAt = "none"
           /\ DOMAIN sites' = (DOMAIN sites) \ {d}
           /\ \A x \in DOMAIN sites' : sites'[x] = sites[x]
           /\ proxyTargets' = {t \in proxyTargets : t.site_id # sites[d].id}
           /\ applyRuns' = {t \in applyRuns : t.site_id # sites[d].id}

C13_DeleteAllOrNothing == [][C13_DeleteStep]_vars

\* C13 witness: the hard delete of the disabled proxy site took its proxy-target row
\* with it.
C13_ChildrenDeleted == nextId = 2 /\ sites = <<>> /\ proxyTargets = {} /\ quiet = "none"

\* ------------------------------------------------------------------- C14
Unreconcilable(s) ==
  s.enabled /\ s.mode = "proxy" /\ ListProxyTargetsBySiteID(proxyTargets, s.id) = {}

\* The next step of the frame actions an enabled proxy site without enabled targets.
ActionsUnreconcilable(f) ==
  IF f.pc = "one"
  THEN ~f.req.dry /\ f.req.domain \in DOMAIN sites /\ Unreconcilable(sites[f.req.domain])
  ELSE /\ f.pc = "loop" /\ ~f.req.dry
       /\ f.i <= Len(f.sites) /\ ~(f.req.limit > 0 /\ f.applied >= f.req.limit)
       /\ Unreconcilable(f.sites[f.i])
       /\ (f.req.all \/ siteNeedsApply(f.sites[f.i]))

C14_FailStep ==
  \A t \in Threads :
    LET f == fr[t]
        g == fr'[t]
    IN  /\ (ActionsUnreconcilable(f) /\ g # f) =>
              /\ stage' = stage /\ live' = live /\ bak' = bak
              /\ g.pc = "upd" /\ ~g.changedNow
              /\ g.upd.status = "fail" /\ g.upd.msg = ProxyErr
        /\ (f.pc = "upd" /\ f.upd.msg = ProxyErr /\ g # f /\ f.d \in DOMAIN sites) =>
              /\ stage' = stage /\ live' = live /\ bak' = bak
              /\ sites'[f.d].last_apply_status = "fail"
              /\ sites'[f.d].last_apply_error = ProxyErr
              /\ g.changed = f.changed
              /\ g.res[Len(g.res)] = ApplyDomainResult(f.d, "apply", FALSE, NoHash, "fail", ProxyErr)
              /\ Single(f) => (g.pc = "ret" /\ g.err = ProxyErr /\ g.resChanged = <<>>)

\* A site that failed for want of targets is not among the changed sites that TestConfig
\* and Reload are run for.
C14_NotChanged ==
  \A t \in Threads :
    LET f == fr[t] IN
    \A k \in 1..Len(f.res) :
      f.res[k].error = ProxyErr =>
        /\ f.res[k].status = "fail" /\ ~f.res[k].changed
        /\ f.res[k].domain \notin ChangedSet(f)
        /\ \A j \in 1..Len(f.resChanged) : f.resChanged[j] # f.res[k].domain

SiteErrs == {ProxyErr, RenderErr, PublishErr, "read staging"}

\* The batch loop is about to action a site that can be rendered.
ActionsRenderable(f) ==
  /\ f.pc = "loop" /\ ~f.req.dry /\ ~LoopDone(f)
  /\ f.sites[f.i].enabled
  /\ (f.req.all \/ siteNeedsApply(f.sites[f.i]))
  /\ buildTemplateData(f.sites[f.i], f.sites[f.i].domain, proxyTargets).ok

C15_BatchStep ==
  \A t \in Threads :
    LET f == fr[t]
        g == fr'[t]
    IN  \* the failure of one site is recorded for that site only and the loop goes on
        /\ (f.pc = "upd" /\ ~Single(f) /\ f.upd.status = "fail" /\ g # f) =>
              /\ f.upd.msg \in SiteErrs
              /\ g.pc = "loop" /\ g.i = f.i + 1 /\ g.err = ""
              /\ g.changed = f.changed
              /\ g.res = Append(f.res, ApplyDomainResult(f.d, "apply", FALSE, f.upd.hash, "fail", f.upd.msg))
              /\ DOMAIN sites' = DOMAIN sites
              /\ \A x \in DOMAIN sites : x # f.d => sites'[x] = sites[x]
              /\ f.d \in DOMAIN sites => sites'[f.d].last_apply_status = "fail"
        \* whatever failed before, the next renderable site is rendered
        /\ (ActionsRenderable(f) /\ g # f) =>
              \/ /\ g.pc = "publish"
                 /\ stage'[g.d] = RenderBytes(buildTemplateData(f.sites[f.i], g.d, proxyTargets).td)
              \/ g.pc = "upd" /\ g.upd.status = "fail" /\ g.upd.msg = RenderErr
        \* and published
        /\ (f.pc = "publish" /\ ~Single(f) /\ g # f) =>
              \/ g.pc = "pub_live"
              \/ g.pc = "upd" /\ g.upd.status = "ok" /\ live[f.d] = stage[f.d]
              \/ g.pc = "upd" /\ g.upd.status = "fail"
        /\ (f.pc = "pub_live" /\ ~Single(f) /\ g # f) =>
              \/ g.pc = "upd" /\ g.upd.status = "ok" /\ g.changedNow /\ live'[f.d] = stage[f.d]
              \/ g.pc = "upd" /\ g.upd.status = "fail" /\ g.upd.msg = PublishErr
        \* after the loop, the sites that changed are validated and reloaded
        /\ (f.pc = "loop" /\ LoopDone(f) /\ ~f.req.dry /\ Len(f.changed) > 0 /\ g # f) =>
              g.pc = ValidatePc /\ g.changed = f.changed

\* In the loop every site visited so far has its row, a failed site is not among the
\* changed sites and a changed site is not failed.
C15_RowPerSite ==
  \A t \in Threads :
    LET f == fr[t] IN
    (f.pc = "loop" /\ ~Single(f)) =>
       /\ \A k \in 1..Len(f.res) : f.res[k].status = "fail" => f.res[k].domain \notin ChangedSet(f)
       /\ \A d \in ChangedSet(f) : \E k \in 1..Len(f.res) :
             f.res[k].domain = d /\ f.res[k].status = "ok" /\ f.res[k].changed

\* C15: in a batch Apply a template-data, render or publish failure of one site is
\* recorded as fail for that site only and does not end the batch: the loop takes the next
\* site, which is rendered and published as usual, and TestConfig/Reload are run for the
\* sites that changed.
C15_SiteFailureDoesNotAbort == [](C15_RowPerSite) /\ [][C15_BatchStep]_vars

\* A batch has reloaded nginx for a site it published after another site had failed.
C15_ReloadedDespiteFailure ==
  \E t \in Threads :
    LET f == fr[t] IN
    /\ f.pc = "ret" /\ ~Single(f) /\ f.reloaded /\ f.err = ""
    /\ \E j, k \in 1..Len(f.res) :
         /\ j < k
         /\ f.res[j].status = "fail" /\ f.res[j].error \in SiteErrs
         /\ f.res[k].status = "ok" /\ f.res[k].changed
         /\ live[f.res[k].domain] # Absent
         /\ f.res[k].domain \in ChangedSet(f)

\* ------------------------------------------------------------------- C16
DryRunning(f) == InPipeline(f) /\ f.req.dry

\* A step of a dry-run Apply writes no file and no table and stays clear of the steps
\* that delete, publish, record, validate, reload or roll back.
C16_DryStep ==
  \A t \in Threads :
    LET f == fr[t]
        g == fr'[t]
    IN  (DryRunning(f) /\ g # f) =>
           /\ stage' = stage /\ live' = live /\ bak' = bak
           /\ sites' = sites /\ proxyTargets' = proxyTargets /\ applyRuns' = applyRuns
           /\ g.pc \in {"list", "loop", "one", "ret", "idle"}
           /\ g.updLog = IF g.pc = "idle" THEN <<>> ELSE f.updLog
           /\ g.pc = "idle" => (~f.reloaded /\ f.resChanged = <<>> /\ f.updLog = <<>>)

\* The rows of a dry run: dry-run for every site a real run would action (delete for a
\* disabled site, apply for an enabled site that is pending or forced), skipped otherwise.
C16_DryRows ==
  \A t \in Threads :
    LET f == fr[t] IN
    (DryRunning(f) /\ f.pc \in {"loop", "ret"}) =>
       IF Single(f)
       THEN \A k \in 1..Len(f.res) :
              f.res[k].domain \in DOMAIN sites =>
                 f.res[k] = ApplyDomainResult(f.req.domain,
                               IF sites[f.req.domain].enabled THEN "apply" ELSE "delete",
                               FALSE, NoHash, "dry-run", "")
       ELSE /\ Len(f.res) <= Len(f.sites)
            /\ f.pc = "ret" => (Len(f.res) = Len(f.sites) \/ (f.req.limit > 0 /\ f.applied >= f.req.limit))
            /\ \A k \in 1..Len(f.res) :
                 LET s == f.sites[k] IN
                 f.res[k] =
                   IF ~s.enabled THEN ApplyDomainResult(s.domain, "delete", FALSE, NoHash, "dry-run", "")
                   ELSE IF f.req.all \/ siteNeedsApply(s)
                        THEN ApplyDomainResult(s.domain, "apply", FALSE, NoHash, "dry-run", "")
                   ELSE ApplyDomainResult(s.domain, "skip", FALSE, NoHash, "skipped", "")

\* C16: an Apply with dry_run=true, single-site or batch, changes no file under the
\* sites, staging or backup directories, writes nothing to the store, runs neither
\* TestConfig nor Reload, and reports status dry-run for every site it would have actioned.
C16_DryRunTouchesNothing == [](C16_DryRows) /\ [][C16_DryStep]_vars

\* A dry-run batch returns a delete row for a disabled site and an apply row for a site
\* never applied, which still has no file.
C16_DryBatchReturned ==
  \E t \in Threads :
    LET f == fr[t] IN
    /\ f.pc = "ret" /\ f.req.dry /\ ~Single(f)
    /\ \E j, k \in 1..Len(f.res) :
         /\ f.res[j].action = "delete" /\ f.res[j].status = "dry-run"
         /\ f.res[k].action = "apply" /\ f.res[k].status = "dry-run"
         /\ live[f.res[k].domain] = Absent /\ stage[f.res[k].domain] = Absent
         /\ sites[f.res[k].domain].last_applied_at = NullTime

\* ------------------------------------------------------------------- C17
ValidationErrs == {"nginx -t failed (rolled back)", "nginx reload failed (rolled back)"}

\* C17: when an Apply, batch or single-site, fails at TestConfig or Reload, the result
\* row of every domain of the changed set reports status fail with the error text.
C17_FailedRowsReportFail ==
  \A t \in Threads :
    LET f == fr[t] IN
    (f.pc = "ret" /\ f.err \in ValidationErrs) =>
       \A d \in ChangedSet(f) :
          \E k \in 1..Len(f.res) :
             f.res[k].domain = d /\ f.res[k].status = "fail" /\ f.res[k].error = f.err

\* ------------------------------------------------------------------- C18
\* C18: every reconciliation attempt on a site (apply, delete or skip; ok, fail, skipped
\* or dry-run) has added an ApplyRun audit row for that site by the time Apply returns.
C18_AuditRowPerAttempt ==
  \A t \in Threads :
    LET f == fr[t] IN
    f.pc = "ret" =>
       \A k \in 1..Len(f.res) :
          f.res[k].domain \in DOMAIN sites =>
             \E r \in applyRuns :
                /\ r.site_id = sites[f.res[k].domain].id
                /\ r.action = f.res[k].action
                /\ r.status = f.res[k].status

\* ------------------------------------------------------------------- C19
\* The reload that activates the published files is entered from a passed nginx -t of the
\* same call only, with the files and the changed set as they were tested, and it reloads
\* those files.  (The reload that follows a rollback, its outcome ignored, re-reads the
\* restored files; it is the step "recover", not this one.)
C19_ReloadStep ==
  \A t \in Threads :
    LET f == fr[t]
        g == fr'[t]
    IN  /\ (g.pc = "reload" /\ f.pc # "reload") =>
              /\ f.pc = "test"
              /\ live' = live /\ g.changed = f.changed /\ Len(f.changed) > 0
        /\ (f.pc = "reload" /\ g # f) => live' = live
        /\ (g.reloaded /\ ~f.reloaded) => f.pc = "reload"

C19_TestConfigured ==
  /\ cfg.testBeforeReload
  /\ \A t \in Threads : fr[t].pc \in {"test", "reload"} => fr[t].changed # <<>>

BeforeValidation(f) ==
  \/ f.pc \in {"list", "loop", "one", "publish", "pub_live", "del", "del_rm", "test"}
  \/ f.pc = "upd" /\ ~Single(f)

\* C20: the pipeline is stage, nginx -t, atomic swap, reload: a rendered vhost replaces
\* the live file only after nginx -t has succeeded for it, so until then every file of the
\* live sites directory is the file that was there when the call began.
C20_SwapOnlyAfterTest ==
  \A t \in Threads :
    BeforeValidation(fr[t]) =>
       \A d \in Domains : live[d] \in {Absent, fr[t].liveAtStart[d]}

\* ------------------------------------------------------------------- C21
\* An Apply step that records fail for an enabled site leaves it reported as ERROR.
C21_FailIsError ==
  \A t \in Threads :
    LET f == fr[t] IN
    \A d \in DOMAIN sites :
      (/\ f.pc \in {"upd", "mark"} /\ fr'[t] # f
       /\ d \in DOMAIN sites' /\ sites'[d] # sites[d] /\ sites'[d].enabled
       /\ sites'[d].last_apply_status = "fail") => computeSiteState(sites'[d]) = "ERROR"

\* A SiteEdit of a site reported as ERROR, which stays enabled, leaves it PENDING.
C21_EditLeavesError ==
  \A d \in DOMAIN sites, m \in Modes, r \in 1..MaxRev :
    (computeSiteState(sites[d]) = "ERROR" /\ SiteEdit(d, m, r, TRUE)) =>
       computeSiteState(sites'[d]) = "PENDING"

\* C21: after a failed apply the reported state of a site is ERROR, and any further edit
\* of that site (UpsertSite through SiteEdit) moves the reported state from ERROR to
\* PENDING.
C21_ErrorThenPending == [][C21_FailIsError /\ C21_EditLeavesError]_vars

\* ------------------------------------------------------------------- C22
\* The three conditions of the claim, on a row.
PendingRow(s) ==
  \/ s.last_applied_at = NullTime
  \/ s.last_apply_status # "ok"
  \/ s.updated_at > s.last_applied_at

\* The batch loop takes an enabled site.
TakesEnabled(f) ==
  f.pc = "loop" /\ ~Single(f) /\ ~LoopDone(f) /\ f.sites[f.i].enabled

C22_LoopStep ==
  \A t \in Threads :
    LET f == fr[t]
        g == fr'[t]
    IN  (TakesEnabled(f) /\ g # f) =>
          LET s == f.sites[f.i] IN
          IF ~f.req.all /\ ~PendingRow(s)
          THEN /\ g.pc = "loop" /\ g.i = f.i + 1 /\ g.applied = f.applied
               /\ g.res = Append(f.res, ApplyDomainResult(s.domain, "skip", FALSE, NoHash, "skipped", ""))
               /\ g.changed = f.changed /\ g.updLog = f.updLog
               /\ stage' = stage /\ live' = live /\ bak' = bak
               /\ sites' = sites /\ proxyTargets' = proxyTargets /\ applyRuns' = applyRuns
          ELSE \/ /\ g.pc \in {"upd", "publish"} /\ g.d = s.domain /\ ~f.req.dry
                  /\ g.res = f.res
               \/ /\ f.req.dry /\ g.pc = "loop" /\ g.applied = f.applied + 1
                  /\ g.res = Append(f.res, ApplyDomainResult(s.domain, "apply", FALSE, NoHash, "dry-run", ""))

\* Until the batch returns, a site that got a skip row keeps its live file, is not in the
\* changed set and had no UpdateApplyResult call.
C22_SkippedUntouched ==
  \A t \in Threads :
    LET f == fr[t] IN
    (InPipeline(f) /\ ~Single(f)) =>
       \A k \in 1..Len(f.res) :
          f.res[k].action = "skip" =>
             /\ f.res[k].status = "skipped" /\ ~f.res[k].changed
             /\ live[f.res[k].domain] = f.liveAtStart[f.res[k].domain]
             /\ f.res[k].domain \notin ChangedSet(f)
             /\ UpdateCalls(f, f.res[k].domain) = 0

\* C22: in batch mode with all=false an enabled site is actioned if and only if
\* last_applied_at is null, or last_apply_status is not ok, or updated_at >
\* last_applied_at; every other enabled site gets a skip/skipped row and none of its files
\* or store fields change.  With all=true every enabled site is actioned.
C22_ActionedIffPending == [](C22_SkippedUntouched) /\ [][C22_LoopStep]_vars

\* A batch with all=false has returned after skipping one enabled site and applying
\* another.
C22_SkippedAndActioned ==
  \E t \in Threads :
    LET f == fr[t] IN
    /\ f.pc = "ret" /\ ~Single(f) /\ ~f.req.all /\ ~f.req.dry
    /\ \E j, k \in 1..Len(f.res) :
         /\ f.res[j].action = "skip"
         /\ f.res[k].action = "apply" /\ f.res[k].status = "ok"

\* ------------------------------------------------------------------- C23
ValidModes == {"php", "proxy", "static"}

LastApply(s) ==
  <<s.last_render_hash, s.last_applied_at, s.last_apply_status, s.last_apply_error>>

\* One row per domain: every domain upserted so far has one row, with an id of its own.
C23_OneRowPerDomain ==
  /\ Cardinality(DOMAIN sites) = nextId - 1
  /\ \A d \in DOMAIN sites : sites[d].domain = d
  /\ \A d, e \in DOMAIN sites : sites[d].id = sites[e].id => d = e

\* One UpsertSite call with an argument whose mode may be anything outside ValidModes.
C23_UpsertStepAsStated ==
  \A site \in SiteArgs :
    UpsertCall(site) =>
      IF site.domain = "" \/ site.user_id = 0 \/ site.webroot = "" \/ site.mode \notin ValidModes
      THEN StoreUpsertSite(sites, nextId, site, now).err # "" /\ sites' = sites
      ELSE /\ StoreUpsertSite(sites, nextId, site, now).err = ""
           /\ \A d \in DOMAIN sites : d # site.domain => sites'[d] = sites[d]
           /\ site.domain \in DOMAIN sites =>
                /\ sites'[site.domain].id = sites[site.domain].id
                /\ sites'[site.domain].created_at = sites[site.domain].created_at
                /\ LastApply(sites'[site.domain]) = LastApply(sites[site.domain])

\* C23: after any sequence of UpsertSite calls there is exactly one site row per domain;
\* an UpsertSite on an existing domain keeps the row's id, created_at and last-apply
\* fields; an UpsertSite with an empty domain, a zero user id, an empty webroot or a mode
\* outside {php, proxy, static} returns an error and leaves the store unchanged.
C23_UpsertAsStated == [](C23_OneRowPerDomain) /\ [][C23_UpsertStepAsStated]_vars

\* The same call, where an empty mode is the default mode php and not an error.
C23_UpsertStep ==
  \A site \in SiteArgs :
    UpsertCall(site) =>
      LET r == StoreUpsertSite(sites, nextId, site, now) IN
      IF \/ site.domain = "" \/ site.user_id = 0 \/ site.webroot = ""
         \/ (site.mode # "" /\ site.mode \notin ValidModes)
      THEN r.err # "" /\ sites' = sites /\ nextId' = nextId
      ELSE /\ r.err = ""
           /\ site.domain \in DOMAIN sites'
           /\ sites'[site.domain].mode = (IF site.mode = "" THEN "php" ELSE site.mode)
           /\ sites'[site.domain].enabled = site.enabled
           /\ sites'[site.domain].updated_at = now
           /\ \A d \in DOMAIN sites : d # site.domain => sites'[d] = sites[d]
           /\ site.domain \in DOMAIN sites =>
                /\ sites'[site.domain].id = sites[site.domain].id
                /\ sites'[site.domain].created_at = sites[site.domain].created_at
                /\ LastApply(sites'[site.domain]) = LastApply(sites[site.domain])

\* C23, amended: as stated, except that the mode that is refused is a non-empty mode
\* outside {php, proxy, static}; an empty mode is stored as php.
C23_UpsertKeepsRow == [](C23_OneRowPerDomain) /\ [][C23_UpsertStep]_vars

\* A site that was applied at time 1 has been upserted again at time 2: same id and
\* created_at, last-apply fields still there.
C23_UpsertedAgain ==
  \E d \in DOMAIN sites :
    /\ sites[d].created_at = 1 /\ sites[d].updated_at = 2
    /\ sites[d].last_applied_at = 1 /\ sites[d].last_apply_status = "ok"
    /\ nextId = 3

\* ------------------------------------------------------------------- C24
\* The steps of a batch Apply inside its loop over the sites.
InLoop == {"list", "loop", "publish", "pub_live", "del", "del_rm", "upd"}

TestFailed(f) == f.err = "nginx -t failed (rolled back)"
ReloadFailed(f) == f.err = "nginx reload failed (rolled back)"

\* TestConfig at most once, after the loop, and never on a dry run or with nothing changed.
C24_TestOnceAfterLoop ==
  \A t \in Threads :
    LET f == fr[t] IN
    ~Single(f) =>
      /\ f.tests <= 1
      /\ f.pc \in InLoop => (f.tests = 0 /\ f.reloads = 0)
      /\ (f.tests > 0 \/ f.reloads > 0) => (LoopDone(f) /\ ~f.req.dry /\ f.changed # <<>>)
      /\ f.reloads > 0 => f.tests = 1

\* TestConfig and Reload are counted where they are invoked.
C24_CountSteps ==
  \A t \in Threads :
    LET f == fr[t]
        g == fr'[t]
    IN  (~Single(f) /\ g.pc # "idle") =>
          /\ g.tests # f.tests => (f.pc = "test" /\ g.tests = f.tests + 1)
          /\ g.reloads # f.reloads => (f.pc \in {"reload", "recover"} /\ g.reloads = f.reloads + 1)

\* C24: in a batch Apply TestConfig is invoked at most once and only after the loop over
\* the sites; when it succeeds Reload is invoked exactly once; when the changed set is
\* empty or dry_run is set, neither TestConfig nor Reload is invoked.
C24_TestOnceReloadOnce ==
  /\ [](C24_TestOnceAfterLoop)
  /\ [][C24_CountSteps]_vars
  /\ [](\A t \in Threads :
          (~Single(fr[t]) /\ fr[t].pc = "ret" /\ fr[t].tests = 1 /\ ~TestFailed(fr[t]))
            => fr[t].reloads = 1)

\* C24, amended: as stated, except that when TestConfig succeeds Reload is invoked once
\* and, only if that Reload fails, once more after the rollback (the recovery reload).
C24_TestOnceReloadOnceOrRecover ==
  /\ [](C24_TestOnceAfterLoop)
  /\ [][C24_CountSteps]_vars
  /\ [](\A t \in Threads :
          (~Single(fr[t]) /\ fr[t].pc = "ret" /\ fr[t].tests = 1 /\ ~TestFailed(fr[t]))
            => fr[t].reloads = (IF ReloadFailed(fr[t]) THEN 2 ELSE 1))

\* A batch returns after TestConfig succeeded and the one Reload succeeded.
C24_BatchReloadedOnce ==
  \E t \in Threads :
    /\ ~Single(fr[t]) /\ fr[t].pc = "ret" /\ fr[t].tests = 1 /\ fr[t].reloads = 1
    /\ fr[t].reloaded /\ fr[t].err = ""

\* ------------------------------------------------------------------- C25
\* The result rows that count as actioned.
Actioned(f) == {k \in 1..Len(f.res) : f.res[k].action \in {"apply", "delete"}}

\* The listed sites the loop has not taken: those behind the current one, and the
\* current one when the limit stopped the loop in front of it.
NotTaken(f) ==
  {k \in 1..Len(f.sites) :
     k > f.i \/ (k = f.i /\ f.req.limit > 0 /\ f.applied >= f.req.limit)}

C25_AtMostLimit ==
  \A t \in Threads :
    LET f == fr[t] IN
    (f.pc # "idle" /\ ~Single(f) /\ f.req.limit > 0) =>
      /\ Cardinality(Actioned(f)) <= f.req.limit
      /\ f.applied = Cardinality(Actioned(f))
      /\ \A k \in NotTaken(f) :
           LET d == f.sites[k].domain IN
           /\ live[d] = f.liveAtStart[d]
           /\ \A j \in 1..Len(f.res) : f.res[j].domain # d
           /\ \A j \in 1..Len(f.changed) : f.changed[j] # d
           /\ \A j \in 1..Len(f.updLog) : f.updLog[j].domain # d

C25_NotTakenUntouched ==
  \A t \in Threads :
    LET f == fr[t] IN
    (f.pc \notin {"idle", "lock", "list"} /\ ~Single(f) /\ f.req.limit > 0 /\ fr'[t] # f) =>
      \A k \in NotTaken(f) :
        LET d == f.sites[k].domain IN
        /\ live'[d] = live[d] /\ stage'[d] = stage[d] /\ bak'[d] = bak[d]
        /\ d \in DOMAIN sites' /\ sites'[d] = sites[d]

\* C25: in a batch Apply with limit n > 0 at most n sites are actioned (result rows with
\* action apply or delete), and the sites behind the limit are not touched, on disk or
\* in the store.
C25_LimitStopsTheLoop == [](C25_AtMostLimit) /\ [][C25_NotTakenUntouched]_vars

\* A batch with limit 1 returns with one actioned site, and behind the limit a site that
\* needs an apply.
C25_LimitHit ==
  \E t \in Threads :
    LET f == fr[t] IN
    /\ f.pc = "ret" /\ ~Single(f) /\ f.req.limit = 1 /\ ~f.req.dry
    /\ Cardinality(Actioned(f)) = 1
    /\ \E k \in NotTaken(f) : f.sites[k].enabled /\ siteNeedsApply(f.sites[k])

\* ------------------------------------------------------------------- C26
\* The call reloaded the server with what it published: its Reload was invoked and
\* returned no error (a call that rolls back has err set).
ReloadedNewConfig(f) == f.reloads = 1 /\ f.err = ""

\* The domains whose live file this call changed and did not roll back.
ChangedAndKept(f) ==
  IF TestFailed(f) \/ ReloadFailed(f) THEN {}
  ELSE {d \in Domains : live[d] # f.liveAtStart[d]}

\* C26: when Apply returns, ApplyResult.reloaded is true exactly when the call reloaded
\* the server successfully with newly published configuration, in single-site mode as
\* well as in batch mode, and the changed list names exactly the domains whose live file
\* was changed and kept.
C26_ResultTellsReloadAndChanged ==
  \A t \in Threads :
    LET f == fr[t] IN
    f.pc = "ret" =>
      /\ f.reloaded <=> ReloadedNewConfig(f)
      /\ {f.resChanged[k] : k \in 1..Len(f.resChanged)} = ChangedAndKept(f)

\* ------------------------------------------------------------------- C27
\* IssueCert has returned nil.
IssueCertOk == call.pc = "done" /\ call.op = "IssueCert" /\ call.err = ""

\* <live>/<domain> is a symlink to a suffixed lineage directory with both files.
AliasToLineage ==
  /\ disk.base.kind = "symlink"
  /\ disk.lin[disk.base.to].kind = "dir"
  /\ disk.lin[disk.base.to].files.fullchain.there
  /\ disk.lin[disk.base.to].files.privkey

ValidOver30Days(d) ==
  LET files == LiveDir(d) IN
  /\ files.fullchain.there /\ files.fullchain.parsed /\ files.privkey
  /\ files.fullchain.left > RenewDays * HoursPerDay

\* C28: IssueCert(d) refuses (returns an error without invoking the ACME client) exactly
\* when an existing valid certificate for d has more than 30 days remaining until
\* NotAfter; in every other case issuance proceeds (d is not empty and its
\* webroot can be created).
C28_RefusesIffOver30Days ==
  [][(call.pc = "idle" /\ call'.pc # "idle" /\ call'.op = "IssueCert"
        /\ call'.domain # "" /\ call'.err # "create webroot")
       => /\ (call'.pc = "done" /\ call'.err # "" /\ ~call'.ran) <=> ValidOver30Days(disk')
          /\ ~ValidOver30Days(disk') => call'.pc = "certbot"]_vars

\* ------------------------------------------------------------------- C29
\* C29: while WriteFileAtomic(path, data, mode) runs and when it has returned, a reader
\* of path finds the complete previous contents (or no file) or the complete new
\* contents, never a part of them; the new contents appear only with the rename; and if
\* a step before the rename (or the rename) fails, path is unchanged and the temporary
\* file is removed.
C29_NoTornWrite ==
  (call.pc # "idle" /\ call.op = "WriteFileAtomic") =>
    /\ disk.path \in {call.old, call.data}
    /\ call.pc \in {"create", "chmod", "write", "sync", "close", "rename", "cleanup"} =>
         disk.path = call.old
    /\ call.pc = "done" =>
         /\ ~disk.tmp.there
         /\ disk.path = (IF call.err = "" THEN call.data ELSE call.old)

\* tmp.Write failed after a part of the data: the temporary file holds the part, the
\* file at path is the old one.
C29_PartialTemp ==
  /\ call.pc = "cleanup" /\ call.op = "WriteFileAtomic" /\ call.err = "write temp"
  /\ disk.tmp.there /\ disk.tmp.bytes # <<>> /\ disk.tmp.bytes # call.data
  /\ disk.path = call.old /\ call.old # Absent /\ call.old # call.data

\* ------------------------------------------------------------------- C30
\* C30: EnsurePool returns changed=false without writing the file or reloading PHP-FPM
\* when the pool file holds the rendered bytes; otherwise it writes the pool file and,
\* once it is written, reloads the service once; if that reload fails it returns
\* changed=true with the error and the new pool file stays.
C30_ReloadOnlyOnChange ==
  (call.pc # "idle" /\ call.op = "EnsurePool" /\ call.err \notin {"domain required", "parse pool template"}) =>
    IF call.old = call.data
    THEN /\ call.pc = "done" /\ call.err = "" /\ ~call.changed
         /\ ~call.wrote /\ call.reloads = 0 /\ disk.path = call.old /\ ~disk.tmp.there
    ELSE /\ call.pc = "reload" => (disk.path = call.data /\ call.reloads = 0)
         /\ call.reloads > 0 => (call.pc = "done" /\ call.reloads = 1 /\ call.changed)
         /\ call.pc = "done" =>
              /\ call.wrote
              /\ call.err = "write pool" => (~call.changed /\ call.reloads = 0 /\ disk.path = call.old)
              /\ call.err # "write pool" => (call.changed /\ call.reloads = 1 /\ disk.path = call.data)

\* EnsurePool has written a new pool file over an old one and the reload failed.
C30_ReloadFailedAfterWrite ==
  /\ call.pc = "done" /\ call.op = "EnsurePool" /\ call.err = "systemctl reload failed"
  /\ call.changed /\ call.old # Absent /\ call.old # call.data /\ disk.path = call.data

\* ------------------------------------------------------------------- C31
RunDone == call.pc = "done" /\ call.op = "Run"

\* C31: Run(timeout, program, args) returns exit_code 0 and no error if and only if the
\* program exited with code 0; returns exit_code -1 and a timeout error if and only if
\* the deadline expired before the program finished; and otherwise returns the
\* program's non-zero exit code together with an error.
C31_RunClassifies ==
  RunDone =>
    LET exitedZero == disk.state = "exited" /\ disk.code = 0
        overran    == disk.state = "killed"
    IN  /\ (call.res.code = 0 /\ call.err = "") <=> exitedZero
        /\ (call.res.code = 0 - 1 /\ call.err = "command timeout") <=> overran
        /\ (~exitedZero /\ ~overran) =>
             (call.err # "" /\ call.res.code # 0 /\ call.res.code = disk.code)

\* ------------------------------------------------------------------- C32
\* C32: GetCertInfo reports DaysLeft = floor((NotAfter - now) / 24h) for every
\* certificate, including expired certificates, for which the difference is negative.
C32_DaysLeftIsFloor ==
  (call.pc = "done" /\ call.op = "GetCertInfo" /\ call.err = "" /\ call.info.exists) =>
    call.info.daysLeft = LiveDir(disk).fullchain.left \div HoursPerDay

\* ---- C33
\* The site the certificate handler's Apply is for is served: enabled, with a live vhost.
CertSiteServed ==
  \E d \in DOMAIN sites :
     /\ call.op = "CertIssue" => d = call.domain
     /\ sites[d].enabled /\ live[d] # Absent

\* C33: when the Apply that CertIssue or CertRenew calls after a successful issuance or
\* renewal returns without error, and a served site uses the certificate, that Apply has
\* reloaded nginx, also when every rendered vhost equals its live file.
C33_ReloadAfterCert ==
  (call.pc = "apply" /\ fr["h1"].pc = "ret" /\ fr["h1"].err = "" /\ CertSiteServed)
    => fr["h1"].reloads >= 1


\* ---- C34
\* An Apply (batch or single) that is returning after it rolled back.
RolledBack(f) == f.pc = "ret" /\ f.err # "" /\ Len(f.changed) > 0 /\ f.reloads + f.tests > 0

\* C34: when an Apply returns after a rollback, a domain has a live vhost only if it had
\* one when the call began, and the live file of every domain the call changed holds the
\* bytes it held when the call began, not those of a backup an earlier Apply left.
C34_RollbackRestoresStart ==
  \A t \in Threads :
    RolledBack(fr[t]) =>
      /\ \A d \in Domains : live[d] # Absent => fr[t].liveAtStart[d] # Absent
      /\ \A k \in 1..Len(fr[t].changed) :
           LET d == fr[t].changed[k] IN
           live[d] # Absent => live[d] = fr[t].liveAtStart[d]


\* ---- C35
\* The desired state of a site row: what an operator sets and the vhost is rendered from.
Desired(s) == <<s.mode, s.rev, s.enabled>>

\* Thread t is about to record ok for the site it read, whose desired state in the store
\* is no longer the one it read.
EditedUnderApply(t) ==
  LET f == fr[t] IN
  /\ f.pc = "upd" /\ f.upd.status = "ok"
  /\ f.d \in DOMAIN sites
  /\ Desired(sites[f.d]) # Desired(f.sites[f.i])

\* C35: when an Apply records ok for a site whose desired state was changed in the store
\* after the Apply read it, the row it leaves is one the next batch Apply acts on: the
\* site is disabled (its vhost is removed on every batch) or it needs apply.
C35_EditSurvivesOkStep ==
  \A t \in Threads :
    (EditedUnderApply(t) /\ fr'[t].pc # "upd") =>
       (~sites'[fr[t].d].enabled \/ siteNeedsApply(sites'[fr[t].d]))

C35_EditSurvivesOk == [][C35_EditSurvivesOkStep]_vars


\* ---- C36
\* A batch Apply over every row (no limit, not a dry run) that is returning without an
\* error and without a failed site.
SuccessfulBatch(f) ==
  /\ f.pc = "ret" /\ ~Single(f) /\ ~f.req.dry /\ f.req.limit = 0
  /\ f.err = ""
  /\ \A k \in 1..Len(f.res) : f.res[k].status \in {"ok", "skipped"}

\* C36: when a successful batch Apply returns, after store edits that all returned
\* before it began, every live vhost file belongs to a domain with an enabled site row.
C36_LiveOnlyForEnabledRows ==
  SuccessfulBatch(fr["h1"]) =>
    \A d \in Domains : live[d] # Absent => (d \in DOMAIN sites /\ sites[d].enabled)


\* ---- C37
\* The batch loop of h1 has taken site d and is about to record its result.
ActionedNow(d) == fr["h1"].pc = "upd" /\ fr["h1"].d = d /\ fr["h1"].upd.action = "apply"

\* C37: under repeated batch Applies with limit 1, an enabled site that needs apply is
\* eventually actioned by one of them.
C37_PendingEventuallyActioned ==
  \A d \in Domains :
    (d \in DOMAIN sites /\ siteNeedsApply(sites[d])) ~> ActionedNow(d)


\* ---- C38
\* EnsurePool has returned without error to buildTemplateData: the apply of the php site
\* goes on to render and publish its vhost and to record ok.
EnsurePoolOk == call.op = "EnsurePool" /\ call.pc = "done" /\ call.err = ""

\* C38: whenever the apply of a php site gets past EnsurePool, php-fpm has been reloaded
\* successfully since the pool file last changed: the service runs the pool file on disk.
C38_FpmRunsPoolFile == EnsurePoolOk => disk.loaded = disk.path


\* ---- C39
\* C39: two distinct site domains that have been applied have distinct pool file paths,
\* distinct socket paths for the same PHP version and distinct upstream keys, and the
\* pool file of every applied site is still the one written for that site.
C39_DistinctNames ==
  /\ \A d, e \in disk.applied :
       d # e => /\ PoolFilePath("/etc/php/8.3/fpm/pool.d", d) # PoolFilePath("/etc/php/8.3/fpm/pool.d", e)
                /\ SocketPath("/run/php", d, "8.3") # SocketPath("/run/php", e, "8.3")
                /\ MakeUpstreamKey(d) # MakeUpstreamKey(e)
  /\ \A d \in disk.applied : disk.pools[PoolFilePath("/etc/php/8.3/fpm/pool.d", d)].owner = d


\* ---- C40
\* A goroutine that waits in Lock() or is outside Apply does not hold the mutex: Apply is
\* never called from inside Apply's critical section, and a returned call has unlocked.
C40_NoSelfWait ==
  \A t \in Threads : fr[t].pc \in {"idle", "lock"} => applyMu # t

====
